---- MODULE Spec2Model ----
(***************************************************************************)
(* Cluster API addon provider for Kubewarden.                              *)
(*                                                                         *)
(* The model follows internal/controller: the KubewardenAddon reconciler   *)
(* (Reconcile, reconcileNormal and the install helpers), the               *)
(* KubewardenPolicy reconciler, the management cluster's store of Cluster  *)
(* objects and the workload clusters reached through the remote client.    *)
(* One reconcile pass is a sequence of steps, one per API call, so that    *)
(* other writers interleave between a read and a later write.              *)
(***************************************************************************)
EXTENDS Integers, Sequences, FiniteSets, TLC

(* ------------------------------ bounds -------------------------------- *)

\* number of Cluster objects in the management cluster
NumClusters == 2
\* number of API calls that may fail during one behaviour
MaxFaults == 1
\* number of changes other actors make to Cluster objects and workload clusters
MaxEnvEvents == 2
\* resources of one kind in the management store
MaxResources == 2
\* rules of a KubewardenPolicy
MaxRules == 2
\* match conditions a KubewardenPolicy carries at most
MaxMatchConditions == 2
\* times the defaulting webhook runs on one admission request at most
MaxDefaults == 2

(* ------------------------- program constants -------------------------- *)

KubewardenInstalledAnnotation == "caapkw.kubewarden.io/installed"
\* defaultRequeueDuration = 1 * time.Minute, in seconds
defaultRequeueDuration == 60
kubewardenNamespace == "kubewarden"
\* the namespace of the KubewardenAddon and KubewardenPolicy resources, and
\* another namespace of the management cluster
ResourceNamespace == "default"
OtherNamespace == "other"
Namespaces == {ResourceNamespace, OtherNamespace}

(* ------------------------------ values -------------------------------- *)

Clusters == 1..NumClusters

\* an annotation key owned by some other controller
OtherAnnotation == "example.io/owner"
AnnotationKeys == {KubewardenInstalledAnnotation, OtherAnnotation}
NoValue == "<absent>"
OtherValues == {"x", "y"}
AnnotationValues == {NoValue, "true"} \cup OtherValues

NoAnnotations == [k \in AnnotationKeys |-> NoValue]

\* the objects the install steps create on a workload cluster, in step order
InstallSteps == <<"namespace", "crds", "controller", "defaults">>
InstallObjs == {InstallSteps[i] : i \in 1..Len(InstallSteps)}

\* what a workload cluster holds under the name of an install object:
\* nothing, the object as the install renders it, or an object of that name
\* that someone else created with a content of their own
NoObject == "<none>"
ChartContent == "caapkw"
OtherContent == "other"

NoError == "nil"

SpecsUpToDateCondition == "KubewardenAddonSpecsUpToDate"
AddonsReadyCondition == "KubewardenAddonReady"
ReadyCondition == "Ready"
ConditionTypes == {SpecsUpToDateCondition, AddonsReadyCondition, ReadyCondition}
ClusterSelectionFailedReason == "ClusterSelectionFailed"
Condition(status, reason) == [status |-> status, reason |-> reason]
NoConditions == [t \in ConditionTypes |-> Condition("Unset", "")]

(* --------------------------- label selectors -------------------------- *)

\* labels of the Cluster objects; they follow the controller's test fixtures
ClusterLabels(c) ==
    CASE c % 3 = 1 -> [environment |-> "production", tier |-> "backend"]
      [] c % 3 = 2 -> [environment |-> "staging"]
      [] OTHER     -> [environment |-> "development", tier |-> "frontend"]

SelEverything == [matchLabels |-> {}, matchExpressions |-> <<>>]
SelProduction == [matchLabels |-> {<<"environment", "production">>},
                  matchExpressions |-> <<>>]
SelInProdStaging ==
    [matchLabels |-> {},
     matchExpressions |-> << [key |-> "environment", operator |-> "In",
                              values |-> {"production", "staging"}] >>]
SelMalformed ==
    [matchLabels |-> {},
     matchExpressions |-> << [key |-> "tier", operator |-> "NotIn",
                              values |-> {}] >>]

Selectors == {SelEverything, SelProduction, SelInProdStaging, SelMalformed}

\* further selectors of the fixtures and of their kind
SelNotInFrontend ==
    [matchLabels |-> {},
     matchExpressions |-> << [key |-> "tier", operator |-> "NotIn",
                              values |-> {"frontend"}] >>]
SelNonexistent == [matchLabels |-> {<<"environment", "nonexistent">>},
                   matchExpressions |-> <<>>]
SelExistsTier ==
    [matchLabels |-> {},
     matchExpressions |-> << [key |-> "tier", operator |-> "Exists",
                              values |-> {}] >>]
SelNoTier ==
    [matchLabels |-> {},
     matchExpressions |-> << [key |-> "tier", operator |-> "DoesNotExist",
                              values |-> {}] >>]
SelInTierBackend ==
    [matchLabels |-> {},
     matchExpressions |-> << [key |-> "tier", operator |-> "In",
                              values |-> {"backend"}] >>]
SelProductionNotBackend ==
    [matchLabels |-> {<<"environment", "production">>},
     matchExpressions |-> << [key |-> "tier", operator |-> "NotIn",
                              values |-> {"backend"}] >>]
SelEnvAndTier ==
    [matchLabels |-> {},
     matchExpressions |-> << [key |-> "environment", operator |-> "In",
                              values |-> {"production", "staging"}],
                             [key |-> "tier", operator |-> "Exists",
                              values |-> {}] >>]
SelectorInputs ==
    Selectors \cup {SelNotInFrontend, SelNonexistent, SelExistsTier, SelNoTier,
                    SelInTierBackend, SelProductionNotBackend, SelEnvAndTier}

\* labels a Cluster object may carry: those of the fixtures, a production
\* cluster without tier, and no label at all
NoLabels == [k \in {} |-> ""]
LabelInputs ==
    {[environment |-> "production", tier |-> "backend"],
     [environment |-> "development", tier |-> "frontend"],
     [environment |-> "staging"],
     [environment |-> "production"],
     NoLabels}

\* labels.NewRequirement: In and NotIn need at least one value, Exists and
\* DoesNotExist need none, any other operator is rejected
ValidRequirement(r) ==
    CASE r.operator \in {"In", "NotIn"}            -> r.values # {}
      [] r.operator \in {"Exists", "DoesNotExist"} -> r.values = {}
      [] OTHER                                     -> FALSE

\* metav1.LabelSelectorAsSelector returns an error
LabelSelectorAsSelectorFails(sel) ==
    \E i \in 1..Len(sel.matchExpressions) :
        ~ValidRequirement(sel.matchExpressions[i])

HasLabel(lbls, k) == k \in DOMAIN lbls

\* a NotIn that asks for the key to be present
RequirementMatchesKeyed(r, lbls) ==
    CASE r.operator = "In"           -> HasLabel(lbls, r.key) /\ lbls[r.key] \in r.values
      [] r.operator = "NotIn"        -> HasLabel(lbls, r.key) /\ lbls[r.key] \notin r.values
      [] r.operator = "Exists"       -> HasLabel(lbls, r.key)
      [] r.operator = "DoesNotExist" -> ~HasLabel(lbls, r.key)
      [] OTHER                       -> FALSE

\* labels.Requirement.Matches
RequirementMatches(r, lbls) ==
    CASE r.operator = "In"           -> HasLabel(lbls, r.key) /\ lbls[r.key] \in r.values
      [] r.operator = "NotIn"        -> ~HasLabel(lbls, r.key) \/ lbls[r.key] \notin r.values
      [] r.operator = "Exists"       -> HasLabel(lbls, r.key)
      [] r.operator = "DoesNotExist" -> ~HasLabel(lbls, r.key)
      [] OTHER                       -> FALSE

\* a selector that is satisfied by any one of its requirements
SelectorMatchesAnyRequirement(sel, lbls) ==
    /\ \A p \in sel.matchLabels : HasLabel(lbls, p[1]) /\ lbls[p[1]] = p[2]
    /\ \/ Len(sel.matchExpressions) = 0
       \/ \E i \in 1..Len(sel.matchExpressions) :
              RequirementMatches(sel.matchExpressions[i], lbls)

\* selector.Matches(labels.Set(cluster.Labels)); the empty selector is
\* labels.Everything()
SelectorMatches(sel, lbls) ==
    /\ \A p \in sel.matchLabels : HasLabel(lbls, p[1]) /\ lbls[p[1]] = p[2]
    /\ \A i \in 1..Len(sel.matchExpressions) :
           RequirementMatches(sel.matchExpressions[i], lbls)

(* ------------------------------- state -------------------------------- *)

VARIABLES
    cluster,      \* management store: Cluster objects by name
    remote,       \* workload clusters: which install objects exist
    addonState,   \* "present", "deleting" (deletion timestamp set) or "absent"
    addonSpec,    \* KubewardenAddon.Spec (the cluster selector)
    addonStatus,  \* KubewardenAddon.Status as stored
    aPc,          \* position of the addon reconcile pass
    aObj,         \* the pass's in-memory copy of the addon's status
    aList,        \* the Cluster objects the pass listed
    aIdx,         \* index in aList of the cluster being processed
    aOps,         \* remote calls and cluster patches the pass issued so far
    aPatch,       \* the last patch of a Cluster object the pass had applied
    aResult,      \* what the pass returns
    remotePolicy, \* workload clusters: the policy object, if any
    policyState,  \* "present", "deleting" (deletion timestamp set) or "absent"
    policySpec,   \* KubewardenPolicy.Spec
    policyStatus, \* KubewardenPolicy.Status as stored
    pPc,          \* position of the policy reconcile pass
    pObj,         \* the pass's in-memory copy of the policy's status
    pList,        \* the Cluster objects the pass listed
    pIdx,         \* index in pList of the cluster being processed
    pLocal,       \* reconcileNormal's locals: allReady, deployedPolicies, ...
    pOps,         \* remote calls the pass issued so far
    pResult,      \* what the pass returns
    faults,       \* API calls that failed so far
    envEvents,    \* changes made by other actors so far
    addonItems,   \* management store: the KubewardenAddon resources, by key
    policyItems,  \* management store: the KubewardenPolicy resources, by key
    requests,     \* the last run of a cluster event mapper: the Cluster
                  \* object it was given and the requests it returned
    admission     \* the KubewardenPolicy an admission request carries
                  \* through the defaulting and the validating webhook

addonVars == <<addonStatus, aPc, aObj, aList, aIdx, aOps, aPatch, aResult>>
policyVars == <<policyStatus, pPc, pObj, pList, pIdx, pLocal, pOps, pResult>>
mapperVars == <<addonItems, policyItems, requests>>
webhookVars == <<admission>>
resourceVars == <<addonState, addonSpec, policyState, policySpec, mapperVars,
                  webhookVars>>
vars == <<cluster, remote, addonState, addonSpec, addonStatus, aPc, aObj,
          aList, aIdx, aOps, aPatch, aResult, remotePolicy, policyState, policySpec,
          policyStatus, pPc, pObj, pList, pIdx, pLocal, pOps, pResult,
          faults, envEvents, addonItems, policyItems, requests, admission>>

\* the outcome of an API call: it may fail while the fault budget lasts
CallOutcomes == IF faults < MaxFaults THEN {TRUE, FALSE} ELSE {TRUE}
Charge(ok) == faults' = IF ok THEN faults ELSE faults + 1

ClusterObject(c) ==
    [name |-> c,
     namespace |-> cluster[c].namespace,
     labels |-> cluster[c].labels,
     controlPlaneReady |-> cluster[c].controlPlaneReady,
     condReady |-> cluster[c].condReady,
     annotations |-> cluster[c].annotations]

AllClusterObjects == [i \in 1..NumClusters |-> ClusterObject(i)]

\* HasAnnotation(o, annotation)
HasAnnotation(o, annotation) == o.annotations[annotation] # NoValue

\* the result of r.Client.List with InNamespace and MatchingLabelsSelector,
\* in name order
listClustersWithLabels(namespace, selector) ==
    SelectSeq(AllClusterObjects,
              LAMBDA o : /\ o.namespace = namespace
                         /\ SelectorMatches(selector, o.labels))

\* KubewardenAddon.SetMatchingClusters
SetMatchingClusters(clusterList) ==
    [i \in 1..Len(clusterList) |-> clusterList[i].name]

Result(requeue, after, err) ==
    [requeue |-> requeue, requeueAfter |-> after, err |-> err,
     patchErr |-> NoError, exit |-> "none", patched |-> 0, patchCalls |-> 0]

NoResult == Result(FALSE, 0, NoError)

(* ---------------------- merge patch of annotations -------------------- *)

\* client.MergeFrom(original): the JSON merge patch holds the keys whose
\* value differs between the original and the modified object; a key that
\* was removed is carried as a deletion (NoValue)
CreateMergePatch(original, modified) ==
    [k \in {k \in AnnotationKeys : original[k] # modified[k]} |-> modified[k]]

\* the API server applies the patch to the object it currently stores
ApplyMergePatch(stored, patch) ==
    [k \in AnnotationKeys |-> IF k \in DOMAIN patch THEN patch[k] ELSE stored[k]]

\* a pass that has patched no Cluster object
NoPatch == [cluster |-> 0, patch |-> <<>>, before |-> NoAnnotations,
            after |-> NoAnnotations]

\* the diff taken the wrong way round: from the annotated object back to the
\* copy made before the annotation was added
MarkerPatchReversed(listed) ==
    LET clusterCopy == listed.annotations
        annotations == [listed.annotations EXCEPT
                           ![KubewardenInstalledAnnotation] = "true"]
    IN  CreateMergePatch(annotations, clusterCopy)

\* a full update in place of the merge patch: every annotation of the
\* listed object is sent, with the marker added
MarkerFullUpdate(listed) ==
    [listed.annotations EXCEPT ![KubewardenInstalledAnnotation] = "true"]

\* lines 189-198 of reconcileNormal: the patch built for the listed object
MarkerPatch(listed) ==
    LET clusterCopy == listed.annotations
        annotations == [listed.annotations EXCEPT
                           ![KubewardenInstalledAnnotation] = "true"]
    IN  CreateMergePatch(clusterCopy, annotations)

(* ------------------------ addon reconcile pass ------------------------ *)

\* leaving the body of Reconcile without the deferred patch
ReturnUnpatched(result, exit) ==
    /\ aResult' = [result EXCEPT !.exit = exit]
    /\ aPc' = "done"

\* leave the body of Reconcile: the deferred patch runs next
Return(result, exit) ==
    /\ aResult' = [result EXCEPT !.exit = exit]
    /\ aPc' = "patch"

\* conditions.MarkFalse
MarkFalse(conds, t, reason) == [conds EXCEPT ![t] = Condition("False", reason)]

\* conditions.SetSummary over the two conditions the controller owns: no
\* condition in scope leaves Ready as it is, a false one makes Ready false
SetSummary(conds) ==
    LET scope == {t \in {SpecsUpToDateCondition, AddonsReadyCondition} :
                      conds[t].status # "Unset"}
        falses == {t \in scope : conds[t].status = "False"}
    IN  IF scope = {} THEN conds
        ELSE IF falses # {}
             THEN [conds EXCEPT ![ReadyCondition] =
                      Condition("False", conds[CHOOSE t \in falses : TRUE].reason)]
             ELSE [conds EXCEPT ![ReadyCondition] = Condition("True", "")]

\* the readiness gate of the addon reconciler (reconcileNormal, line 144)
AddonClusterNotReady(o) == ~o.controlPlaneReady /\ ~o.condReady

\* Reconcile entering reconcileNormal whether or not the addon carries a
\* deletion timestamp
ReconcileIgnoringDeletion ==
    /\ aPc \in {"idle", "done"}
    /\ aOps' = <<>>
    /\ aPatch' = NoPatch
    /\ UNCHANGED <<cluster, remote, resourceVars, addonStatus, envEvents,
                   remotePolicy, policyVars>>
    /\ \E failing \in {"none"} \cup (IF faults < MaxFaults /\ addonState # "absent"
                                     THEN {"get", "list"} ELSE {}) :
        /\ Charge(failing = "none")
        /\ IF addonState = "absent" \/ failing = "get"
           THEN \* r.Client.Get fails: nothing to patch
                /\ aResult' = IF addonState = "absent"
                              THEN [Result(TRUE, 0, NoError) EXCEPT !.exit = "notFound"]
                              ELSE [Result(TRUE, 0, "get") EXCEPT !.exit = "getError"]
                /\ aPc' = "done"
                /\ aList' = <<>>
                /\ aIdx' = 0
                /\ aObj' = addonStatus
           ELSE IF failing = "list"
                   \/ LabelSelectorAsSelectorFails(addonSpec.clusterSelector)
           THEN \* listClustersWithLabels returns an error
                /\ aObj' = [addonStatus EXCEPT !.conditions =
                              MarkFalse(addonStatus.conditions,
                                        SpecsUpToDateCondition,
                                        ClusterSelectionFailedReason)]
                /\ aList' = <<>>
                /\ aIdx' = 0
                /\ Return(Result(FALSE, 0, "listClustersWithLabels"), "listError")
           ELSE LET clusters == listClustersWithLabels(ResourceNamespace,
                                                      addonSpec.clusterSelector)
                IN  /\ aList' = clusters
                    /\ aObj' = [addonStatus EXCEPT !.matchingClusters =
                                   SetMatchingClusters(clusters)]
                    /\ IF Len(clusters) = 0
                       THEN aIdx' = 0 /\ Return(NoResult, "completed")
                       ELSE /\ aPc' = "check"
                            /\ aIdx' = 1
                            /\ aResult' = NoResult

\* Reconcile, lines 84-135: get the addon, list the matching clusters, set
\* status.matchingClusters and enter reconcileNormal
Reconcile ==
    /\ aPc \in {"idle", "done"}
    /\ aOps' = <<>>
    /\ aPatch' = NoPatch
    /\ UNCHANGED <<cluster, remote, resourceVars, addonStatus, envEvents,
                   remotePolicy, policyVars>>
    /\ \E failing \in {"none"} \cup (IF faults < MaxFaults /\ addonState # "absent"
                                     THEN {"get", "list"} ELSE {}) :
        /\ Charge(failing = "none")
        /\ IF addonState = "absent" \/ failing = "get"
           THEN \* r.Client.Get fails: nothing to patch
                /\ aResult' = IF addonState = "absent"
                              THEN [Result(TRUE, 0, NoError) EXCEPT !.exit = "notFound"]
                              ELSE [Result(TRUE, 0, "get") EXCEPT !.exit = "getError"]
                /\ aPc' = "done"
                /\ aList' = <<>>
                /\ aIdx' = 0
                /\ aObj' = addonStatus
           ELSE IF failing = "list"
                   \/ LabelSelectorAsSelectorFails(addonSpec.clusterSelector)
           THEN \* listClustersWithLabels returns an error
                /\ aObj' = [addonStatus EXCEPT !.conditions =
                              MarkFalse(addonStatus.conditions,
                                        SpecsUpToDateCondition,
                                        ClusterSelectionFailedReason)]
                /\ aList' = <<>>
                /\ aIdx' = 0
                /\ Return(Result(FALSE, 0, "listClustersWithLabels"), "listError")
           ELSE LET clusters == listClustersWithLabels(ResourceNamespace,
                                                      addonSpec.clusterSelector)
                IN  /\ aList' = clusters
                    /\ aObj' = [addonStatus EXCEPT !.matchingClusters =
                                   SetMatchingClusters(clusters)]
                    /\ IF addonState = "deleting"
                       THEN aIdx' = 0 /\ Return(NoResult, "deleting")
                       ELSE IF Len(clusters) = 0
                       THEN aIdx' = 0 /\ Return(NoResult, "completed")
                       ELSE /\ aPc' = "check"
                            /\ aIdx' = 1
                            /\ aResult' = NoResult

\* CheckCluster returning an empty result, without a requeue, at a cluster
\* that is not ready
CheckClusterNoRequeue ==
    /\ aPc = "check"
    /\ IF AddonClusterNotReady(aList[aIdx])
       THEN Return(NoResult, "notReady")
       ELSE IF HasAnnotation(aList[aIdx], KubewardenInstalledAnnotation)
       THEN Return(NoResult, "alreadyInstalled")
       ELSE aPc' = "client" /\ UNCHANGED aResult
    /\ UNCHANGED <<cluster, remote, resourceVars, addonStatus, aObj, aList,
                   aIdx, aOps, aPatch, faults, envEvents, remotePolicy,
                   policyVars>>

\* CheckCluster without the marker check of lines 148-151
CheckClusterIgnoringMarker ==
    /\ aPc = "check"
    /\ IF AddonClusterNotReady(aList[aIdx])
       THEN Return(Result(FALSE, defaultRequeueDuration, NoError), "notReady")
       ELSE aPc' = "client" /\ UNCHANGED aResult
    /\ UNCHANGED <<cluster, remote, resourceVars, addonStatus, aObj, aList,
                   aIdx, aOps, aPatch, faults, envEvents, remotePolicy,
                   policyVars>>

\* reconcileNormal, lines 143-151: the readiness gate and the marker check
\* for the cluster at aIdx
CheckCluster ==
    /\ aPc = "check"
    /\ IF AddonClusterNotReady(aList[aIdx])
       THEN Return(Result(FALSE, defaultRequeueDuration, NoError), "notReady")
       ELSE IF HasAnnotation(aList[aIdx], KubewardenInstalledAnnotation)
       THEN Return(NoResult, "alreadyInstalled")
       ELSE aPc' = "client" /\ UNCHANGED aResult
    /\ UNCHANGED <<cluster, remote, resourceVars, addonStatus, aObj, aList,
                   aIdx, aOps, aPatch, faults, envEvents, remotePolicy,
                   policyVars>>

\* reconcileNormal, lines 153-157: r.RemoteClientGetter
RemoteClientGetter ==
    /\ aPc = "client"
    /\ \E ok \in CallOutcomes :
        /\ Charge(ok)
        /\ IF ok THEN aPc' = "namespace" /\ UNCHANGED aResult
                 ELSE Return(Result(FALSE, 0, "getting remote cluster client"), "error")
    /\ UNCHANGED <<cluster, remote, resourceVars, addonStatus, aObj, aList,
                   aIdx, aOps, aPatch, envEvents, remotePolicy, policyVars>>

\* client.Create put in place of an apply: the object sent replaces the one
\* the cluster holds
CreateOrReplace(existing, obj) == obj

\* client.Create as the install steps use it: an object that exists is left
\* as it is (AlreadyExists, which the callers ignore)
Create(existing, obj) == IF existing = NoObject THEN obj ELSE existing

\* one install step: create the step's objects on the workload cluster; an
\* object that already exists is left as it is and counts as success
InstallStep(step, next) ==
    /\ aPc = step
    /\ LET c == aList[aIdx].name IN
       \E ok \in CallOutcomes :
        /\ Charge(ok)
        /\ aOps' = Append(aOps, [cluster |-> c, op |-> step, ok |-> ok])
        /\ IF ok
           THEN /\ remote' = [remote EXCEPT ![c][step] = Create(@, ChartContent)]
                /\ aPc' = next
                /\ UNCHANGED aResult
           ELSE /\ UNCHANGED remote
                /\ Return(Result(FALSE, 0, step), "error")
    /\ UNCHANGED <<cluster, resourceVars, addonStatus, aObj, aList, aIdx,
                   aPatch, envEvents, remotePolicy, policyVars>>

\* an install step whose error is dropped: the pass goes on to the next step
InstallStepUnchecked(step, next) ==
    /\ aPc = step
    /\ LET c == aList[aIdx].name IN
       \E ok \in CallOutcomes :
        /\ Charge(ok)
        /\ aOps' = Append(aOps, [cluster |-> c, op |-> step, ok |-> ok])
        /\ remote' = IF ok THEN [remote EXCEPT ![c][step] = Create(@, ChartContent)]
                         ELSE remote
        /\ aPc' = next
        /\ UNCHANGED aResult
    /\ UNCHANGED <<cluster, resourceVars, addonStatus, aObj, aList, aIdx,
                   aPatch, envEvents, remotePolicy, policyVars>>

installKubewardenDefaultsUnchecked == InstallStepUnchecked("defaults", "mark")

installKubewardenCRDsUnchecked == InstallStepUnchecked("crds", "controller")

\* helpers.go, lines 41-55
createKubewardenNamespace == InstallStep("namespace", "crds")

\* kubewardenaddon_controller.go, lines 246-280
installKubewardenCRDs == InstallStep("crds", "controller")

\* kubewardenaddon_controller.go, lines 282-293
installKubewardenController == InstallStep("controller", "defaults")

\* kubewardenaddon_controller.go, lines 295-306
installKubewardenDefaults == InstallStep("defaults", "mark")

\* r.Client.Update in place of the merge patch: the Cluster object as the
\* pass listed it, with the marker added, replaces the stored object
PatchClusterFullUpdate ==
    /\ aPc = "mark"
    /\ LET c == aList[aIdx].name IN
       \E ok \in CallOutcomes :
        /\ Charge(ok)
        /\ aOps' = Append(aOps, [cluster |-> c, op |-> "marker", ok |-> ok])
        /\ IF ok
           THEN /\ cluster' = [cluster EXCEPT ![c] =
                      [namespace |-> aList[aIdx].namespace,
                       labels |-> aList[aIdx].labels,
                       controlPlaneReady |-> aList[aIdx].controlPlaneReady,
                       condReady |-> aList[aIdx].condReady,
                       annotations |-> MarkerFullUpdate(aList[aIdx])]]
                /\ aPatch' = [cluster |-> c, patch |-> MarkerPatch(aList[aIdx]),
                              before |-> cluster[c].annotations,
                              after |-> cluster'[c].annotations]
                /\ IF aIdx < Len(aList)
                   THEN aIdx' = aIdx + 1 /\ aPc' = "check" /\ UNCHANGED aResult
                   ELSE UNCHANGED aIdx /\ Return(NoResult, "completed")
           ELSE /\ UNCHANGED <<cluster, aIdx, aPatch>>
                /\ Return(Result(FALSE, 0, "update cluster annotations"), "error")
    /\ UNCHANGED <<remote, resourceVars, addonStatus, aObj, aList, envEvents,
                   remotePolicy, policyVars>>

\* reconcileNormal, lines 189-202: merge-patch the marker onto the cluster
\* object and move on to the next cluster
PatchCluster ==
    /\ aPc = "mark"
    /\ LET c == aList[aIdx].name IN
       \E ok \in CallOutcomes :
        /\ Charge(ok)
        /\ aOps' = Append(aOps, [cluster |-> c, op |-> "marker", ok |-> ok])
        /\ IF ok
           THEN /\ cluster' = [cluster EXCEPT ![c].annotations =
                      ApplyMergePatch(cluster[c].annotations, MarkerPatch(aList[aIdx]))]
                /\ aPatch' = [cluster |-> c, patch |-> MarkerPatch(aList[aIdx]),
                              before |-> cluster[c].annotations,
                              after |-> cluster'[c].annotations]
                /\ IF aIdx < Len(aList)
                   THEN aIdx' = aIdx + 1 /\ aPc' = "check" /\ UNCHANGED aResult
                   ELSE UNCHANGED aIdx /\ Return(NoResult, "completed")
           ELSE /\ UNCHANGED <<cluster, aIdx, aPatch>>
                /\ Return(Result(FALSE, 0, "update cluster annotations"), "error")
    /\ UNCHANGED <<remote, resourceVars, addonStatus, aObj, aList, envEvents,
                   remotePolicy, policyVars>>

\* the deferred patchKubewardenAddon, lines 104-113 and 373-393: summarise
\* the conditions and patch the status; its error is returned when the body
\* returned none.  status.ready is not part of the patch: no line assigns it
patchKubewardenAddon ==
    /\ aPc = "patch"
    /\ \E ok \in CallOutcomes :
        /\ Charge(ok)
        /\ LET summarised == [aObj EXCEPT !.conditions = SetSummary(aObj.conditions)]
           IN  /\ aObj' = summarised
               /\ addonStatus' = IF ok THEN summarised ELSE addonStatus
        /\ aResult' = [aResult EXCEPT
                          !.patchErr = IF ok THEN NoError ELSE "patch",
                          !.patched = IF ok THEN 1 ELSE 0,
                          !.patchCalls = aResult.patchCalls + 1]
    /\ aPc' = "done"
    /\ UNCHANGED <<cluster, remote, resourceVars, aList, aIdx, aOps, aPatch,
                   envEvents, remotePolicy, policyVars>>

\* the error Reconcile returns to the work queue
Reterr(result) == IF result.err # NoError THEN result.err ELSE result.patchErr

(* ---------------------------- other actors ---------------------------- *)

\* the Cluster API controllers change a cluster's readiness
ClusterStatusChange ==
    /\ envEvents < MaxEnvEvents
    /\ envEvents' = envEvents + 1
    /\ \E c \in Clusters, r \in BOOLEAN, k \in BOOLEAN :
        /\ <<r, k>> # <<cluster[c].controlPlaneReady, cluster[c].condReady>>
        /\ cluster' = [cluster EXCEPT ![c].controlPlaneReady = r,
                                      ![c].condReady = k]
    /\ UNCHANGED <<remote, resourceVars, addonVars, faults, remotePolicy,
                   policyVars>>

\* the pass of another KubewardenAddon that selects the cluster too: it ran
\* the install steps of reconcileNormal and patched the marker
OtherAddonInstalls ==
    /\ envEvents < MaxEnvEvents
    /\ envEvents' = envEvents + 1
    /\ \E c \in Clusters :
        /\ cluster[c].controlPlaneReady \/ cluster[c].condReady
        /\ ~HasAnnotation(cluster[c], KubewardenInstalledAnnotation)
        /\ remote' = [remote EXCEPT ![c] =
                         [o \in InstallObjs |-> Create(remote[c][o], ChartContent)]]
        /\ cluster' = [cluster EXCEPT
               ![c].annotations[KubewardenInstalledAnnotation] = "true"]
    /\ UNCHANGED <<resourceVars, addonVars, faults, remotePolicy, policyVars>>

\* another controller writes its own annotation on a Cluster object
OtherActorAnnotate ==
    /\ envEvents < MaxEnvEvents
    /\ envEvents' = envEvents + 1
    /\ \E c \in Clusters, v \in OtherValues :
        /\ cluster[c].annotations[OtherAnnotation] # v
        /\ cluster' = [cluster EXCEPT ![c].annotations[OtherAnnotation] = v]
    /\ UNCHANGED <<remote, resourceVars, addonVars, faults, remotePolicy,
                   policyVars>>

\* the deletion of the KubewardenPolicy is requested while a finalizer set
\* by another party keeps the object: it stays, with a deletion timestamp
PolicyDeletionRequested ==
    /\ envEvents < MaxEnvEvents
    /\ envEvents' = envEvents + 1
    /\ policyState = "present"
    /\ policyState' = "deleting"
    /\ UNCHANGED <<cluster, remote, addonState, addonSpec, policySpec, addonVars,
                   faults, remotePolicy, policyVars, mapperVars, webhookVars>>

\* the API server removes the KubewardenPolicy: the reconciler puts no
\* finalizer on it, so a deletion request removes the object at once, and an
\* object kept by another party's finalizer goes when that finalizer does
PolicyRemoved ==
    /\ envEvents < MaxEnvEvents
    /\ envEvents' = envEvents + 1
    /\ policyState \in {"present", "deleting"}
    /\ policyState' = "absent"
    /\ UNCHANGED <<cluster, remote, addonState, addonSpec, policySpec, addonVars,
                   faults, remotePolicy, policyVars, mapperVars, webhookVars>>

(* ----------------------- policy reconcile pass ------------------------ *)

\* no policy object on the workload cluster
\* spec.mode of a remote policy object that was never set
UnsetMode == ""

\* the zero values of the remote spec's optional fields: a nil
\* *FailurePolicyType and a RawExtension without raw content
NilFailurePolicy == [set |-> FALSE, type |-> "FailurePolicyType", value |-> ""]
NoSettings == [raw |-> <<>>]

NoPolicy == [present |-> FALSE,
             key |-> [kind |-> "", name |-> "", namespace |-> ""],
             spec |-> [policyServer |-> "", module |-> "", mutating |-> FALSE,
                       rules |-> <<>>, failurePolicy |-> NilFailurePolicy,
                       settings |-> NoSettings, matchConditions |-> <<>>,
                       mode |-> UnsetMode],
             policyStatus |-> ""]
PolicyStatusActive == "active"
\* requeue of a pass that wrote the status: 5 * time.Minute, in seconds
policyRequeueDuration == 300

\* a key that leaves the namespace out for either kind
PolicyKeyNameOnly(ps) ==
    [kind |-> ps.policyType, name |-> ps.policyName, namespace |-> ""]

\* the key of the remote policy object: a ClusterAdmissionPolicy is keyed by
\* its name, an AdmissionPolicy by its name and namespace
PolicyKey(ps) ==
    IF ps.policyType = "ClusterAdmissionPolicy"
    THEN [kind |-> "ClusterAdmissionPolicy", name |-> ps.policyName, namespace |-> ""]
    ELSE [kind |-> "AdmissionPolicy", name |-> ps.policyName,
          namespace |-> ps.targetNamespace]

\* admissionregistrationv1.OperationType(op)
OperationType(op) == [type |-> "OperationType", value |-> op]

\* convertOperations
convertOperations(ops) == [i \in 1..Len(ops) |-> OperationType(ops[i])]

\* a *ScopeType that is nil
NilScope == [set |-> FALSE, type |-> "ScopeType", value |-> ""]

\* a conversion that takes the scope "*", which is the default of the
\* admission API, for an unset one
convertScopeStarUnset(scope) ==
    IF scope = "" \/ scope = "*" THEN NilScope
    ELSE [set |-> TRUE, type |-> "ScopeType", value |-> scope]

\* convertScope
convertScope(scope) ==
    IF scope = "" THEN NilScope
    ELSE [set |-> TRUE, type |-> "ScopeType", value |-> scope]

\* buildPolicySpec, lines 671-683: one RuleWithOperations per rule, in order
RuleWithOperations(rule) ==
    [operations |-> convertOperations(rule.operations),
     rule |-> [apiGroups |-> rule.apiGroups,
               apiVersions |-> rule.apiVersions,
               resources |-> rule.resources,
               scope |-> convertScope(rule.scope)]]

\* admissionregistrationv1.FailurePolicyType(s), taken by address
FailurePolicyType(fp) == [set |-> TRUE, type |-> "FailurePolicyType", value |-> fp]

\* admissionregistrationv1.MatchCondition built from a MatchCondition of the
\* resource
MatchCondition(mc) ==
    [type |-> "admissionregistrationv1.MatchCondition",
     name |-> mc.name, expression |-> mc.expression]

\* buildPolicySpec converting the failure policy without the test for the
\* empty string
buildPolicySpecAlwaysFailurePolicy(ps) ==
    [policyServer |-> ps.policyServer, module |-> ps.module, mutating |-> ps.mutating,
     rules |-> [i \in 1..Len(ps.rules) |-> RuleWithOperations(ps.rules[i])],
     failurePolicy |-> FailurePolicyType(ps.failurePolicy),
     settings |-> IF Len(ps.settings.raw) > 0 THEN ps.settings ELSE NoSettings,
     matchConditions |-> [i \in 1..Len(ps.matchConditions) |->
                             MatchCondition(ps.matchConditions[i])],
     mode |-> UnsetMode]

\* buildPolicySpec; the fields of the remote spec that KubewardenPolicy does
\* not expose (mode) keep their zero value
buildPolicySpec(ps) ==
    [policyServer |-> ps.policyServer, module |-> ps.module, mutating |-> ps.mutating,
     rules |-> [i \in 1..Len(ps.rules) |-> RuleWithOperations(ps.rules[i])],
     failurePolicy |-> IF ps.failurePolicy # "" THEN FailurePolicyType(ps.failurePolicy)
                       ELSE NilFailurePolicy,
     settings |-> IF Len(ps.settings.raw) > 0 THEN ps.settings ELSE NoSettings,
     matchConditions |-> [i \in 1..Len(ps.matchConditions) |->
                             MatchCondition(ps.matchConditions[i])],
     mode |-> UnsetMode]

\* the readiness gate of the policy reconciler (reconcileNormal, line 475)
PolicyClusterNotReady(o) == ~o.controlPlaneReady \/ ~o.condReady

\* remoteClient.Get finds the object with the policy's key
RemoteFound(c) ==
    /\ remotePolicy[c].present
    /\ remotePolicy[c].key = PolicyKey(policySpec)

PResult(after, err) == [requeueAfter |-> after, err |-> err, exit |-> "none"]
NoLocal == [allReady |-> TRUE, deployedPolicies |-> <<>>, gates |-> <<>>,
            found |-> FALSE]

\* the DeployedPolicyStatus deployPolicy starts from
DeployedPolicyStatus(o, active, message) ==
    [clusterName |-> o.name, policyName |-> policySpec.policyName,
     policyType |-> policySpec.policyType, active |-> active,
     message |-> message]

PReturn(result, exit) ==
    /\ pResult' = [result EXCEPT !.exit = exit]
    /\ pPc' = "done"

\* getMatchingClusters
getMatchingClusters ==
    listClustersWithLabels(ResourceNamespace, policySpec.clusterSelector)

\* Reconcile of the policy, lines 424-443, with the head of reconcileNormal
\* (lines 445-469) or of reconcileDelete (lines 519-528)
PolicyReconcile ==
    /\ pPc \in {"idle", "done"}
    /\ pOps' = <<>>
    /\ UNCHANGED <<cluster, remote, resourceVars, policyStatus, envEvents,
                   remotePolicy, addonVars>>
    /\ \E failing \in {"none"} \cup (IF faults < MaxFaults /\ policyState # "absent"
                                     THEN {"get", "list"} ELSE {}) :
        /\ Charge(failing = "none")
        /\ IF policyState = "absent" \/ failing = "get"
           THEN /\ PReturn(PResult(0, IF failing = "get" THEN "get" ELSE NoError),
                           IF failing = "get" THEN "getError" ELSE "notFound")
                /\ pList' = <<>> /\ pIdx' = 0 /\ pLocal' = NoLocal
                /\ pObj' = policyStatus
           ELSE IF failing = "list"
                   \/ LabelSelectorAsSelectorFails(policySpec.clusterSelector)
           THEN /\ PReturn(PResult(0, "getMatchingClusters"), "listError")
                /\ pList' = <<>> /\ pIdx' = 0 /\ pLocal' = NoLocal
                /\ pObj' = policyStatus
           ELSE LET clusters == getMatchingClusters IN
                /\ pList' = clusters
                /\ pLocal' = NoLocal
                /\ pResult' = PResult(0, NoError)
                /\ IF policyState = "deleting"
                   THEN /\ pObj' = policyStatus
                        /\ IF Len(clusters) = 0
                           THEN /\ pIdx' = 0
                                /\ PReturn(PResult(0, NoError), "deleted")
                           ELSE pIdx' = 1 /\ pPc' = "dclient"
                   ELSE IF Len(clusters) = 0
                   THEN /\ pObj' = [policyStatus EXCEPT !.ready = FALSE,
                                                        !.deployedPolicies = <<>>]
                        /\ pIdx' = 0
                        /\ pPc' = "pstatus"
                   ELSE /\ pObj' = [policyStatus EXCEPT !.matchingClusters =
                                       SetMatchingClusters(clusters)]
                        /\ pIdx' = 1
                        /\ pPc' = "pcheck"

\* the loop's "continue": note the gate's outcome, go to the next cluster or
\* leave the loop
PolicyContinue(local, outcome) ==
    /\ pLocal' = [local EXCEPT !.gates = Append(@, outcome)]
    /\ IF pIdx < Len(pList)
       THEN pIdx' = pIdx + 1 /\ pPc' = "pcheck"
       ELSE UNCHANGED pIdx /\ pPc' = "pstatus"

\* PolicyCheckCluster whose gates skip the cluster without clearing allReady
PolicyCheckClusterKeepsReady ==
    /\ pPc = "pcheck"
    /\ IF PolicyClusterNotReady(pList[pIdx])
       THEN PolicyContinue(pLocal, "notReady")
       ELSE IF ~HasAnnotation(pList[pIdx], KubewardenInstalledAnnotation)
       THEN PolicyContinue(pLocal, "notInstalled")
       ELSE pPc' = "pclient" /\ UNCHANGED <<pLocal, pIdx>>
    /\ UNCHANGED <<cluster, remote, resourceVars, policyStatus, pObj, pList,
                   pOps, pResult, faults, envEvents, remotePolicy, addonVars>>

\* PolicyCheckCluster without the installed gate of lines 481-486
PolicyCheckClusterIgnoringMarker ==
    /\ pPc = "pcheck"
    /\ IF PolicyClusterNotReady(pList[pIdx])
       THEN PolicyContinue([pLocal EXCEPT !.allReady = FALSE], "notReady")
       ELSE pPc' = "pclient" /\ UNCHANGED <<pLocal, pIdx>>
    /\ UNCHANGED <<cluster, remote, resourceVars, policyStatus, pObj, pList,
                   pOps, pResult, faults, envEvents, remotePolicy, addonVars>>

\* PolicyCheckCluster without the readiness gate of lines 474-479
PolicyCheckClusterUngated ==
    /\ pPc = "pcheck"
    /\ IF ~HasAnnotation(pList[pIdx], KubewardenInstalledAnnotation)
       THEN PolicyContinue([pLocal EXCEPT !.allReady = FALSE], "notInstalled")
       ELSE pPc' = "pclient" /\ UNCHANGED <<pLocal, pIdx>>
    /\ UNCHANGED <<cluster, remote, resourceVars, policyStatus, pObj, pList,
                   pOps, pResult, faults, envEvents, remotePolicy, addonVars>>

\* reconcileNormal, lines 474-486: readiness gate and installed gate
PolicyCheckCluster ==
    /\ pPc = "pcheck"
    /\ IF PolicyClusterNotReady(pList[pIdx])
       THEN PolicyContinue([pLocal EXCEPT !.allReady = FALSE], "notReady")
       ELSE IF ~HasAnnotation(pList[pIdx], KubewardenInstalledAnnotation)
       THEN PolicyContinue([pLocal EXCEPT !.allReady = FALSE], "notInstalled")
       ELSE pPc' = "pclient" /\ UNCHANGED <<pLocal, pIdx>>
    /\ UNCHANGED <<cluster, remote, resourceVars, policyStatus, pObj, pList,
                   pOps, pResult, faults, envEvents, remotePolicy, addonVars>>

\* reconcileNormal, lines 488-494
PolicyRemoteClientGetter ==
    /\ pPc = "pclient"
    /\ \E ok \in CallOutcomes :
        /\ Charge(ok)
        /\ IF ok THEN pPc' = "pget" /\ UNCHANGED <<pLocal, pIdx>>
                 ELSE PolicyContinue([pLocal EXCEPT !.allReady = FALSE], "noClient")
    /\ UNCHANGED <<cluster, remote, resourceVars, policyStatus, pObj, pList,
                   pOps, pResult, envEvents, remotePolicy, addonVars>>

\* a failed deploy that ends the loop over the clusters
PolicyDeployFailedStops(message) ==
    /\ pLocal' = [pLocal EXCEPT
                     !.allReady = FALSE,
                     !.deployedPolicies =
                         Append(@, DeployedPolicyStatus(pList[pIdx], FALSE, message)),
                     !.gates = Append(@, "deployFailed")]
    /\ UNCHANGED pIdx
    /\ pPc' = "pstatus"

\* a failed deploy that is recorded but leaves allReady as it is
PolicyDeployFailedKeepsReady(message) ==
    PolicyContinue([pLocal EXCEPT
                       !.deployedPolicies =
                           Append(@, DeployedPolicyStatus(pList[pIdx], FALSE, message))],
                   "deployFailed")

\* reconcileNormal, lines 498-505: deployPolicy returned an error
PolicyDeployFailed(message) ==
    PolicyContinue([pLocal EXCEPT
                       !.allReady = FALSE,
                       !.deployedPolicies =
                           Append(@, DeployedPolicyStatus(pList[pIdx], FALSE, message))],
                   "deployFailed")

\* deployClusterAdmissionPolicy / deployAdmissionPolicy: the get of the
\* existing object
PolicyGetExisting ==
    /\ pPc = "pget"
    /\ LET c == pList[pIdx].name IN
       \E ok \in CallOutcomes :
        /\ Charge(ok)
        /\ pOps' = Append(pOps, [cluster |-> c, op |-> "get", ok |-> ok])
        /\ IF ok
           THEN /\ pLocal' = [pLocal EXCEPT !.found = RemoteFound(c)]
                /\ pPc' = IF RemoteFound(c) THEN "pupdate" ELSE "pcreate"
                /\ UNCHANGED pIdx
           ELSE PolicyDeployFailed("get")
    /\ UNCHANGED <<cluster, remote, resourceVars, policyStatus, pObj, pList,
                   pResult, envEvents, remotePolicy, addonVars>>

\* remoteClient.Create of the policy object; it fails when the object exists
PolicyCreate ==
    /\ pPc = "pcreate"
    /\ LET c == pList[pIdx].name IN
       \E ok \in CallOutcomes :
        /\ Charge(ok)
        /\ LET done == ok /\ ~RemoteFound(c) IN
           /\ pOps' = Append(pOps, [cluster |-> c, op |-> "create", ok |-> done])
           /\ IF done
              THEN /\ remotePolicy' = [remotePolicy EXCEPT ![c] =
                          [present |-> TRUE,
                           key |-> PolicyKey(policySpec),
                           spec |-> buildPolicySpec(policySpec),
                           policyStatus |-> "pending"]]
                   /\ pPc' = "pactive"
                   /\ UNCHANGED <<pLocal, pIdx>>
              ELSE /\ UNCHANGED remotePolicy
                   /\ PolicyDeployFailed(IF ok THEN "already exists" ELSE "create")
    /\ UNCHANGED <<cluster, remote, resourceVars, policyStatus, pObj, pList,
                   pResult, envEvents, addonVars>>

\* existing.Spec = cap.Spec; remoteClient.Update(existing)
PolicyUpdate ==
    /\ pPc = "pupdate"
    /\ LET c == pList[pIdx].name IN
       \E ok \in CallOutcomes :
        /\ Charge(ok)
        /\ LET done == ok /\ RemoteFound(c) IN
           /\ pOps' = Append(pOps, [cluster |-> c, op |-> "update", ok |-> done])
           /\ IF done
              THEN /\ remotePolicy' = [remotePolicy EXCEPT ![c].spec =
                                          buildPolicySpec(policySpec)]
                   /\ pPc' = "pactive"
                   /\ UNCHANGED <<pLocal, pIdx>>
              ELSE /\ UNCHANGED remotePolicy
                   /\ PolicyDeployFailed(IF ok THEN "not found" ELSE "update")
    /\ UNCHANGED <<cluster, remote, resourceVars, policyStatus, pObj, pList,
                   pResult, envEvents, addonVars>>

\* the tail of deployPolicy taking a deployed policy for active without
\* comparing the status it fetched
isPolicyActiveAssumed ==
    /\ pPc = "pactive"
    /\ LET c == pList[pIdx].name IN
       \E ok \in CallOutcomes :
        /\ Charge(ok)
        /\ LET done == ok /\ RemoteFound(c) IN
           /\ pOps' = Append(pOps, [cluster |-> c, op |-> "getStatus", ok |-> done])
           /\ IF done
              THEN PolicyContinue(
                       [pLocal EXCEPT !.deployedPolicies =
                           Append(@, DeployedPolicyStatus(pList[pIdx], TRUE,
                               "Policy successfully deployed and active"))],
                       "deployed")
              ELSE PolicyDeployFailed(IF ok THEN "not found" ELSE "getStatus")
    /\ UNCHANGED <<cluster, remote, resourceVars, policyStatus, pObj, pList,
                   pResult, envEvents, remotePolicy, addonVars>>

\* isPolicyActive, lines 723-746, and the tail of deployPolicy
isPolicyActive ==
    /\ pPc = "pactive"
    /\ LET c == pList[pIdx].name IN
       \E ok \in CallOutcomes :
        /\ Charge(ok)
        /\ LET done == ok /\ RemoteFound(c) IN
           /\ pOps' = Append(pOps, [cluster |-> c, op |-> "getStatus", ok |-> done])
           /\ IF done
              THEN LET active == remotePolicy[c].policyStatus = PolicyStatusActive IN
                   PolicyContinue(
                       [pLocal EXCEPT !.deployedPolicies =
                           Append(@, DeployedPolicyStatus(pList[pIdx], active,
                               IF active THEN "Policy successfully deployed and active"
                                         ELSE "Policy deployed but not yet active"))],
                       "deployed")
              ELSE PolicyDeployFailed(IF ok THEN "not found" ELSE "getStatus")
    /\ UNCHANGED <<cluster, remote, resourceVars, policyStatus, pObj, pList,
                   pResult, envEvents, remotePolicy, addonVars>>

\* the status update asking for the same requeue delay on every exit,
\* whether or not a cluster matched
PolicyStatusUpdateFixedRequeue ==
    /\ pPc = "pstatus"
    /\ \E ok \in CallOutcomes :
        /\ Charge(ok)
        /\ LET obj == IF Len(pList) = 0 THEN pObj
                      ELSE [pObj EXCEPT !.ready = pLocal.allReady,
                                        !.deployedPolicies = pLocal.deployedPolicies]
           IN  /\ pObj' = obj
               /\ policyStatus' = IF ok THEN obj ELSE policyStatus
        /\ IF ok
           THEN PReturn(PResult(policyRequeueDuration, NoError), "updated")
           ELSE PReturn(PResult(0, "status update"), "statusError")
    /\ UNCHANGED <<cluster, remote, resourceVars, pList, pIdx, pLocal, pOps,
                   envEvents, remotePolicy, addonVars>>

\* reconcileNormal, lines 457-462 and 508-516: r.Client.Status().Update
PolicyStatusUpdate ==
    /\ pPc = "pstatus"
    /\ \E ok \in CallOutcomes :
        /\ Charge(ok)
        /\ LET obj == IF Len(pList) = 0 THEN pObj
                      ELSE [pObj EXCEPT !.ready = pLocal.allReady,
                                        !.deployedPolicies = pLocal.deployedPolicies]
           IN  /\ pObj' = obj
               /\ policyStatus' = IF ok THEN obj ELSE policyStatus
        /\ IF ok
           THEN PReturn(PResult(IF Len(pList) = 0 THEN defaultRequeueDuration
                                ELSE policyRequeueDuration, NoError), "updated")
           ELSE PReturn(PResult(0, "status update"), "statusError")
    /\ UNCHANGED <<cluster, remote, resourceVars, pList, pIdx, pLocal, pOps,
                   envEvents, remotePolicy, addonVars>>

\* reconcileDelete: note what happened at the cluster, go to the next
\* cluster or finish
DeleteContinue(outcome) ==
    /\ pLocal' = [pLocal EXCEPT !.gates = Append(@, outcome)]
    /\ IF pIdx < Len(pList)
       THEN pIdx' = pIdx + 1 /\ pPc' = "dclient" /\ UNCHANGED pResult
       ELSE UNCHANGED pIdx /\ PReturn(PResult(0, NoError), "deleted")

\* a delete pass that returns the error of the remote client getter
DeleteRemoteClientGetterFatal ==
    /\ pPc = "dclient"
    /\ \E ok \in CallOutcomes :
        /\ Charge(ok)
        /\ IF ok THEN pPc' = "ddelete" /\ UNCHANGED <<pIdx, pResult, pLocal>>
                 ELSE /\ PReturn(PResult(0, "getting remote cluster client"), "deleted")
                      /\ UNCHANGED <<pIdx, pLocal>>
    /\ UNCHANGED <<cluster, remote, resourceVars, policyStatus, pObj, pList,
                   pOps, envEvents, remotePolicy, addonVars>>

\* reconcileDelete, lines 533-537
DeleteRemoteClientGetter ==
    /\ pPc = "dclient"
    /\ \E ok \in CallOutcomes :
        /\ Charge(ok)
        /\ IF ok THEN pPc' = "ddelete" /\ UNCHANGED <<pIdx, pResult, pLocal>>
                 ELSE DeleteContinue("noClient")
    /\ UNCHANGED <<cluster, remote, resourceVars, policyStatus, pObj, pList,
                   pOps, envEvents, remotePolicy, addonVars>>

\* deletePolicy, lines 748-781, called from reconcileDelete, lines 539-543
deletePolicy ==
    /\ pPc = "ddelete"
    /\ LET c == pList[pIdx].name IN
       \E ok \in CallOutcomes :
        /\ Charge(ok)
        /\ pOps' = Append(pOps, [cluster |-> c, op |-> "delete", ok |-> ok])
        /\ remotePolicy' = IF ok /\ RemoteFound(c)
                           THEN [remotePolicy EXCEPT ![c] = NoPolicy]
                           ELSE remotePolicy
        /\ DeleteContinue(IF ~ok THEN "deleteFailed"
                          ELSE IF RemoteFound(c) THEN "deleted" ELSE "notFound")
    /\ UNCHANGED <<cluster, remote, resourceVars, policyStatus, pObj, pList,
                   envEvents, addonVars>>

\* the Kubewarden controller of a workload cluster activates a policy
RemotePolicyActivates ==
    /\ envEvents < MaxEnvEvents
    /\ envEvents' = envEvents + 1
    /\ \E c \in Clusters :
        /\ remotePolicy[c].present
        /\ remotePolicy[c].policyStatus # PolicyStatusActive
        /\ remotePolicy' = [remotePolicy EXCEPT ![c].policyStatus = PolicyStatusActive]
    /\ UNCHANGED <<cluster, remote, resourceVars, addonVars, policyVars, faults>>

\* spec.mode as an operator of a workload cluster sets it by hand
MonitorMode == "monitor"

\* an operator patches spec.mode of the policy object on a workload cluster
ManualModePatch ==
    /\ envEvents < MaxEnvEvents
    /\ envEvents' = envEvents + 1
    /\ \E c \in Clusters :
        /\ remotePolicy[c].present
        /\ remotePolicy[c].spec.mode # MonitorMode
        /\ remotePolicy' = [remotePolicy EXCEPT ![c].spec.mode = MonitorMode]
    /\ UNCHANGED <<cluster, remote, resourceVars, addonVars, policyVars, faults>>

\* the module of a policy object that another writer created
OtherModule == "other"

\* another writer creates, on a workload cluster, the policy object the
\* reconciler is about to create, with a spec of its own
OtherWriterCreates ==
    /\ envEvents < MaxEnvEvents
    /\ envEvents' = envEvents + 1
    /\ \E c \in Clusters :
        /\ ~remotePolicy[c].present
        /\ remotePolicy' = [remotePolicy EXCEPT ![c] =
               [present |-> TRUE,
                key |-> PolicyKey(policySpec),
                spec |-> [buildPolicySpec(policySpec) EXCEPT !.module = OtherModule],
                policyStatus |-> "pending"]]
    /\ UNCHANGED <<cluster, remote, resourceVars, addonVars, policyVars, faults>>

PolicyNext ==
    \/ PolicyReconcile
    \/ PolicyCheckCluster
    \/ PolicyRemoteClientGetter
    \/ PolicyGetExisting
    \/ PolicyCreate
    \/ PolicyUpdate
    \/ isPolicyActive
    \/ PolicyStatusUpdate
    \/ DeleteRemoteClientGetter
    \/ deletePolicy

(* ------------------------ cluster event mappers ----------------------- *)

\* the key of a resource, as a ctrl.Request carries it
ObjectKey(item) == [namespace |-> item.namespace, name |-> item.name]

\* r.Client.List with client.InNamespace, in key order
ListInNamespace(items, namespace) ==
    SelectSeq(items, LAMBDA item : item.namespace = namespace)

\* no mapper has run
NoRequests == [mapper |-> "", object |-> [name |-> 0], listed |-> FALSE,
               keys |-> <<>>]

\* the loop of ClusterToKubewardenAddonMapper over addons.Items: a selector
\* that does not parse ends the mapper with nil
RECURSIVE AddonMapperLoop(_, _, _)
AddonMapperLoop(items, o, results) ==
    IF items = <<>> THEN results
    ELSE LET addon == Head(items) IN
         IF LabelSelectorAsSelectorFails(addon.clusterSelector) THEN <<>>
         ELSE AddonMapperLoop(Tail(items), o,
                  IF SelectorMatches(addon.clusterSelector, o.labels)
                  THEN Append(results, ObjectKey(addon)) ELSE results)

\* ClusterToKubewardenAddonMapper for the Cluster object o; listed tells
\* whether listing the addons succeeded
ClusterToKubewardenAddonMapper(o, listed) ==
    IF ~listed THEN <<>>
    ELSE AddonMapperLoop(ListInNamespace(addonItems, o.namespace), o, <<>>)

\* the loop of clusterToKubewardenPolicy over policies.Items: a selector
\* that does not parse is passed over
RECURSIVE PolicyMapperLoop(_, _, _)
PolicyMapperLoop(items, o, results) ==
    IF items = <<>> THEN results
    ELSE LET policy == Head(items) IN
         IF LabelSelectorAsSelectorFails(policy.clusterSelector)
         THEN PolicyMapperLoop(Tail(items), o, results)
         ELSE PolicyMapperLoop(Tail(items), o,
                  IF SelectorMatches(policy.clusterSelector, o.labels)
                  THEN Append(results, ObjectKey(policy)) ELSE results)

\* clusterToKubewardenPolicy for the Cluster object o
clusterToKubewardenPolicy(o, listed) ==
    IF ~listed THEN <<>>
    ELSE PolicyMapperLoop(ListInNamespace(policyItems, o.namespace), o, <<>>)

\* a Cluster event reaches the addon controller's watch
AddonClusterEvent ==
    /\ \E c \in Clusters, ok \in CallOutcomes :
        /\ Charge(ok)
        /\ requests' = [mapper |-> "addon", object |-> ClusterObject(c), listed |-> ok,
                        keys |-> ClusterToKubewardenAddonMapper(ClusterObject(c), ok)]
    /\ UNCHANGED <<cluster, remote, addonState, addonSpec, policyState,
                   policySpec, addonItems, policyItems, addonVars, policyVars,
                   remotePolicy, envEvents, webhookVars>>

\* a Cluster event reaches the policy controller's watch
PolicyClusterEvent ==
    /\ \E c \in Clusters, ok \in CallOutcomes :
        /\ Charge(ok)
        /\ requests' = [mapper |-> "policy", object |-> ClusterObject(c), listed |-> ok,
                        keys |-> clusterToKubewardenPolicy(ClusterObject(c), ok)]
    /\ UNCHANGED <<cluster, remote, addonState, addonSpec, policyState,
                   policySpec, addonItems, policyItems, addonVars, policyVars,
                   remotePolicy, envEvents, webhookVars>>

\* someone relabels a Cluster object
ClusterLabelsChange ==
    /\ envEvents < MaxEnvEvents
    /\ envEvents' = envEvents + 1
    /\ \E c \in Clusters, l \in LabelInputs :
        /\ l # cluster[c].labels
        /\ cluster' = [cluster EXCEPT ![c].labels = l]
    /\ UNCHANGED <<remote, resourceVars, addonVars, faults, remotePolicy,
                   policyVars>>

(* --------------------------- policy webhooks -------------------------- *)

\* no admission request
NoAdmission == [name |-> "", spec |-> <<>>, old |-> <<>>, defaults |-> 0,
                verdict |-> ""]

\* KubewardenPolicy.Default, applied to the object p of a request: p.name is
\* GetName(), p.spec the Spec.  The assignments follow the order of the
\* source: targetNamespace is tested against the policy type already set
Default(p) ==
    LET s1 == IF p.spec.policyType = ""
              THEN [p.spec EXCEPT !.policyType = "ClusterAdmissionPolicy"]
              ELSE p.spec
        s2 == IF s1.policyServer = "" THEN [s1 EXCEPT !.policyServer = "default"]
              ELSE s1
        s3 == IF s2.failurePolicy = "" THEN [s2 EXCEPT !.failurePolicy = "Fail"]
              ELSE s2
        s4 == IF s3.policyName = "" THEN [s3 EXCEPT !.policyName = p.name]
              ELSE s3
        s5 == IF s4.policyType = "AdmissionPolicy" /\ s4.targetNamespace = ""
              THEN [s4 EXCEPT !.targetNamespace = "default"]
              ELSE s4
    IN  [p EXCEPT !.spec = s5]

\* the operations validateKubewardenPolicy accepts
validOps == {"CREATE", "UPDATE", "DELETE", "CONNECT"}

\* the body of validateKubewardenPolicy's loop for one rule: the first error
\* of the rule, or none
validateRule(rule) ==
    IF Len(rule.apiVersions) = 0 THEN "apiVersions must be specified"
    ELSE IF Len(rule.resources) = 0 THEN "resources must be specified"
    ELSE IF Len(rule.operations) = 0 THEN "operations must be specified"
    ELSE IF \E i \in 1..Len(rule.operations) : rule.operations[i] \notin validOps
    THEN "invalid operation"
    ELSE NoError

\* validateKubewardenPolicy: the error it returns, or none
validateKubewardenPolicy(p) ==
    LET failing == {i \in 1..Len(p.spec.rules) : validateRule(p.spec.rules[i]) # NoError}
    IN  IF p.spec.module = "" THEN "module must be specified"
        ELSE IF Len(p.spec.rules) = 0 THEN "at least one rule must be specified"
        ELSE IF failing # {}
        THEN validateRule(p.spec.rules[CHOOSE i \in failing : \A j \in failing : i <= j])
        ELSE IF p.spec.policyType = "AdmissionPolicy" /\ p.spec.targetNamespace = ""
        THEN "targetNamespace must be specified for AdmissionPolicy"
        ELSE NoError

\* the mutating webhook calls Default on the object of the request; a
\* request can pass through it more than once (reinvocation, a later update)
DefaultingWebhook ==
    /\ admission.verdict = ""
    /\ admission.defaults < MaxDefaults
    /\ admission' = [Default(admission) EXCEPT !.old = admission.spec,
                                               !.defaults = admission.defaults + 1]
    /\ UNCHANGED <<cluster, remote, addonState, addonSpec, policyState, policySpec,
                   mapperVars, addonVars, policyVars, remotePolicy, faults,
                   envEvents>>

\* the validating webhook (ValidateCreate, ValidateUpdate) runs on the
\* defaulted object and admits or rejects the request
ValidatingWebhook ==
    /\ admission.verdict = ""
    /\ admission.defaults >= 1
    /\ admission' = [admission EXCEPT !.verdict = validateKubewardenPolicy(admission)]
    /\ UNCHANGED <<cluster, remote, addonState, addonSpec, policyState, policySpec,
                   mapperVars, addonVars, policyVars, remotePolicy, faults,
                   envEvents>>

(* ------------------------- the whole system -------------------------- *)

\* the stored status of a resource no pass has touched yet
NewAddonStatus == [ready |-> FALSE, matchingClusters |-> <<>>,
                   conditions |-> NoConditions]
NewPolicyStatus == [ready |-> FALSE, matchingClusters |-> <<>>,
                    deployedPolicies |-> <<>>, conditions |-> NoConditions]

\* rules a KubewardenPolicy may carry (PolicyRule): operations are never
\* empty, the scope is "", "*", "Cluster" or "Namespaced"
RuleInputs ==
    {[apiGroups |-> <<"">>, apiVersions |-> <<"v1">>, resources |-> <<"pods">>,
      operations |-> <<"CREATE", "UPDATE">>, scope |-> ""],
     [apiGroups |-> <<"apps">>, apiVersions |-> <<"v1">>,
      resources |-> <<"deployments">>, operations |-> <<"CREATE">>,
      scope |-> "Namespaced"],
     [apiGroups |-> <<>>, apiVersions |-> <<"v1">>, resources |-> <<"namespaces">>,
      operations |-> <<"DELETE">>, scope |-> "Cluster"],
     [apiGroups |-> <<"", "apps">>, apiVersions |-> <<"v1", "v1beta1">>,
      resources |-> <<"pods", "deployments">>,
      operations |-> <<"UPDATE", "CREATE">>, scope |-> "*"]}

RuleLists == UNION {[1..n -> RuleInputs] : n \in 0..MaxRules}

\* the rules of the policies whose rules are not at stake
DefaultRules ==
    << [apiGroups |-> <<"">>, apiVersions |-> <<"v1">>, resources |-> <<"pods">>,
        operations |-> <<"CREATE", "UPDATE">>, scope |-> ""] >>

\* values of the optional fields of KubewardenPolicySpec: failurePolicy
\* (empty when a client bypasses defaulting), settings with and without raw
\* content, match conditions
FailurePolicyInputs == {"", "Ignore", "Fail"}
SettingsInputs == {NoSettings, [raw |-> <<"{", "\"k\":1", "}">>]}
MatchConditionInputs ==
    {[name |-> "a", expression |-> "object.metadata.name != 'x'"],
     [name |-> "b", expression |-> "request.operation == 'CREATE'"]}
MatchConditionLists ==
    UNION {[1..n -> MatchConditionInputs] : n \in 0..MaxMatchConditions}

PolicySpecFields(selectors, types, ruleLists, mutatings, fps, settings, mcs) ==
    [clusterSelector : selectors, policyType : types,
     policyName : {"p"}, targetNamespace : {"ns"},
     policyServer : {"default"}, module : {"m"}, mutating : mutatings,
     rules : ruleLists, failurePolicy : fps, settings : settings,
     matchConditions : mcs]

PolicySpecsWith(selectors, types, ruleLists) ==
    PolicySpecFields(selectors, types, ruleLists, {FALSE}, {"Fail"},
                     {NoSettings}, {<<>>})

PolicySpecs(selectors, types) == PolicySpecsWith(selectors, types, {DefaultRules})

\* a Cluster object on which no addon pass has run
NewCluster(namespace, lbls, controlPlaneReady, condReady, annotations) ==
    [namespace |-> namespace, labels |-> lbls,
     controlPlaneReady |-> controlPlaneReady, condReady |-> condReady,
     annotations |-> annotations]

\* clusters of the resources' namespace, labelled as the fixtures, in any
\* state of readiness and without annotations
FreshClusters ==
    {[c \in Clusters |-> NewCluster(ResourceNamespace, ClusterLabels(c),
                                    r[c][1], r[c][2], NoAnnotations)] :
        r \in [Clusters -> BOOLEAN \X BOOLEAN]}

\* both reconcilers at rest, nothing failed, nothing changed by others
AtRest ==
    /\ addonStatus = NewAddonStatus
    /\ aPc = "idle"
    /\ aObj = NewAddonStatus
    /\ aList = <<>>
    /\ aIdx = 0
    /\ aOps = <<>>
    /\ aPatch = NoPatch
    /\ aResult = NoResult
    /\ remotePolicy = [c \in Clusters |-> NoPolicy]
    /\ policyStatus = NewPolicyStatus
    /\ pPc = "idle"
    /\ pObj = NewPolicyStatus
    /\ pList = <<>>
    /\ pIdx = 0
    /\ pLocal = NoLocal
    /\ pOps = <<>>
    /\ pResult = PResult(0, NoError)
    /\ faults = 0
    /\ envEvents = 0
    /\ requests = NoRequests
    /\ admission = NoAdmission

\* the addon reconciler alone: any addon over fresh clusters, no policy
InitAddon ==
    /\ cluster \in FreshClusters
    /\ remote = [c \in Clusters |-> [o \in InstallObjs |-> NoObject]]
    /\ addonState \in {"present", "deleting", "absent"}
    /\ addonSpec \in [clusterSelector : {SelEverything, SelProduction, SelMalformed}]
    /\ policyState = "absent"
    /\ policySpec \in PolicySpecs({SelEverything}, {"ClusterAdmissionPolicy"})
    /\ addonItems = <<>>
    /\ policyItems = <<>>
    /\ AtRest

\* the policy reconciler alone: any policy over clusters on which the addon
\* is installed or not, no addon
InitPolicy ==
    /\ \E installed \in SUBSET Clusters, r \in [Clusters -> BOOLEAN \X BOOLEAN] :
        /\ cluster = [c \in Clusters |->
               NewCluster(ResourceNamespace, ClusterLabels(c), r[c][1], r[c][2],
                          [NoAnnotations EXCEPT ![KubewardenInstalledAnnotation] =
                               IF c \in installed THEN "true" ELSE NoValue])]
        /\ remote = [c \in Clusters |->
                       [o \in InstallObjs |-> IF c \in installed THEN ChartContent
                                              ELSE NoObject]]
    /\ addonState = "absent"
    /\ addonSpec \in [clusterSelector : {SelEverything}]
    /\ policyState \in {"present", "deleting", "absent"}
    /\ policySpec \in PolicySpecs({SelEverything, SelProduction, SelMalformed},
                                  {"ClusterAdmissionPolicy", "AdmissionPolicy"})
    /\ addonItems = <<>>
    /\ policyItems = <<>>
    /\ AtRest

\* both reconcilers over clusters that are still being provisioned (they
\* become ready by ClusterStatusChange), each resource selecting every cluster
Init ==
    /\ cluster = [c \in Clusters |->
           NewCluster(ResourceNamespace, ClusterLabels(c), FALSE, FALSE,
                      NoAnnotations)]
    /\ remote = [c \in Clusters |-> [o \in InstallObjs |-> NoObject]]
    /\ addonState = "present"
    /\ addonSpec \in [clusterSelector : {SelEverything}]
    /\ policyState \in {"present", "deleting"}
    /\ policySpec \in PolicySpecs({SelEverything}, {"ClusterAdmissionPolicy"})
    /\ addonItems = <<>>
    /\ policyItems = <<>>
    /\ AtRest

\* the addon reconciler over ready clusters of any namespace and labelling,
\* with any of the selectors
InitSelector ==
    /\ cluster \in {[c \in Clusters |->
                        NewCluster(n[c], l[c], TRUE, TRUE, NoAnnotations)] :
                     n \in [Clusters -> Namespaces], l \in [Clusters -> LabelInputs]}
    /\ remote = [c \in Clusters |-> [o \in InstallObjs |-> NoObject]]
    /\ addonState = "present"
    /\ addonSpec \in [clusterSelector : SelectorInputs]
    /\ policyState = "absent"
    /\ policySpec \in PolicySpecs({SelEverything}, {"ClusterAdmissionPolicy"})
    /\ addonItems = <<>>
    /\ policyItems = <<>>
    /\ AtRest

\* the policy reconciler over ready clusters on which the addon is
\* installed: a policy of either type, with any rules, selecting them all,
\* or such a policy whose deletion another party's finalizer holds back
InitDeploy ==
    /\ cluster = [c \in Clusters |->
           NewCluster(ResourceNamespace, ClusterLabels(c), TRUE, TRUE,
                      [NoAnnotations EXCEPT ![KubewardenInstalledAnnotation] = "true"])]
    /\ remote = [c \in Clusters |-> [o \in InstallObjs |-> ChartContent]]
    /\ addonState = "absent"
    /\ addonSpec \in [clusterSelector : {SelEverything}]
    /\ policyState \in {"present", "deleting"}
    /\ policySpec \in PolicySpecsWith({SelEverything},
                                      {"ClusterAdmissionPolicy", "AdmissionPolicy"},
                                      RuleLists)
    /\ addonItems = <<>>
    /\ policyItems = <<>>
    /\ AtRest

\* the policy reconciler over ready clusters on which the addon is
\* installed and whose labels others change: a policy that selects the
\* production clusters, or selects by an environment no cluster has
InitRelabel ==
    /\ cluster = [c \in Clusters |->
           NewCluster(ResourceNamespace, ClusterLabels(c), TRUE, TRUE,
                      [NoAnnotations EXCEPT ![KubewardenInstalledAnnotation] = "true"])]
    /\ remote = [c \in Clusters |-> [o \in InstallObjs |-> ChartContent]]
    /\ addonState = "absent"
    /\ addonSpec \in [clusterSelector : {SelEverything}]
    /\ policyState \in {"present", "deleting"}
    /\ policySpec \in PolicySpecs({SelProduction, SelNonexistent},
                                  {"ClusterAdmissionPolicy"})
    /\ addonItems = <<>>
    /\ policyItems = <<>>
    /\ AtRest

\* the addon reconciler over ready, unmarked clusters that already hold any
\* of the install objects, created by someone else with another content
InitInstall ==
    /\ cluster = [c \in Clusters |->
           NewCluster(ResourceNamespace, ClusterLabels(c), TRUE, TRUE, NoAnnotations)]
    /\ remote \in [Clusters -> [InstallObjs -> {NoObject, OtherContent}]]
    /\ addonState = "present"
    /\ addonSpec \in [clusterSelector : {SelEverything}]
    /\ policyState = "absent"
    /\ policySpec \in PolicySpecs({SelEverything}, {"ClusterAdmissionPolicy"})
    /\ addonItems = <<>>
    /\ policyItems = <<>>
    /\ AtRest

\* the policy reconciler over ready clusters on which the addon is
\* installed: a policy with any of the optional fields of its spec
InitBuild ==
    /\ cluster = [c \in Clusters |->
           NewCluster(ResourceNamespace, ClusterLabels(c), TRUE, TRUE,
                      [NoAnnotations EXCEPT ![KubewardenInstalledAnnotation] = "true"])]
    /\ remote = [c \in Clusters |-> [o \in InstallObjs |-> ChartContent]]
    /\ addonState = "absent"
    /\ addonSpec \in [clusterSelector : {SelEverything}]
    /\ policyState \in {"present", "deleting"}
    /\ policySpec \in PolicySpecFields({SelEverything}, {"ClusterAdmissionPolicy"},
                                       {DefaultRules}, BOOLEAN, FailurePolicyInputs,
                                       SettingsInputs, MatchConditionLists)
    /\ addonItems = <<>>
    /\ policyItems = <<>>
    /\ AtRest

\* both reconcilers over ready clusters without marker, each resource
\* present, being deleted or gone
InitRemoval ==
    /\ cluster = [c \in Clusters |->
           NewCluster(ResourceNamespace, ClusterLabels(c), TRUE, TRUE, NoAnnotations)]
    /\ remote = [c \in Clusters |-> [o \in InstallObjs |-> NoObject]]
    /\ addonState \in {"present", "deleting", "absent"}
    /\ addonSpec \in [clusterSelector : {SelEverything}]
    /\ policyState \in {"present", "deleting", "absent"}
    /\ policySpec \in PolicySpecs({SelEverything}, {"ClusterAdmissionPolicy"})
    /\ addonItems = <<>>
    /\ policyItems = <<>>
    /\ AtRest

\* the metadata.name of the object of an admission request: empty while a
\* create request leaves the name to generateName
NameInputs == {"", "my-policy"}

\* rules of an admission request: rules of the fixtures, a CONNECT rule, and
\* rules without apiVersions, resources or operations or with an operation
\* the API does not know
WebhookRuleInputs ==
    {[apiGroups |-> <<"">>, apiVersions |-> <<"v1">>, resources |-> <<"pods">>,
      operations |-> <<"CREATE", "UPDATE">>, scope |-> ""],
     [apiGroups |-> <<"">>, apiVersions |-> <<"v1">>, resources |-> <<"pods/exec">>,
      operations |-> <<"CONNECT", "DELETE">>, scope |-> "Namespaced"],
     [apiGroups |-> <<"">>, apiVersions |-> <<>>, resources |-> <<"pods">>,
      operations |-> <<"CREATE">>, scope |-> ""],
     [apiGroups |-> <<"">>, apiVersions |-> <<"v1">>, resources |-> <<>>,
      operations |-> <<"CREATE">>, scope |-> ""],
     [apiGroups |-> <<"">>, apiVersions |-> <<"v1">>, resources |-> <<"pods">>,
      operations |-> <<>>, scope |-> ""],
     [apiGroups |-> <<"">>, apiVersions |-> <<"v1">>, resources |-> <<"pods">>,
      operations |-> <<"CREATE", "PATCH">>, scope |-> ""]}

WebhookRuleLists == UNION {[1..n -> WebhookRuleInputs] : n \in 0..MaxRules}

\* the specs an admission request may carry: every defaulted field given or
\* left empty
WebhookSpecs ==
    [clusterSelector : {SelEverything},
     policyType : {"", "ClusterAdmissionPolicy", "AdmissionPolicy"},
     policyName : {"", "p"}, targetNamespace : {"", "ns"},
     policyServer : {"", "reserved"}, module : {"", "m"}, mutating : {FALSE},
     rules : WebhookRuleLists, failurePolicy : {"", "Ignore"},
     settings : {NoSettings}, matchConditions : {<<>>}]

\* an admission request for a KubewardenPolicy reaches the webhooks; the
\* reconcilers are at rest
InitWebhook ==
    /\ cluster \in {[c \in Clusters |->
           NewCluster(ResourceNamespace, ClusterLabels(c), TRUE, TRUE, NoAnnotations)]}
    /\ remote = [c \in Clusters |-> [o \in InstallObjs |-> NoObject]]
    /\ addonState = "absent"
    /\ addonSpec \in [clusterSelector : {SelEverything}]
    /\ policyState = "absent"
    /\ policySpec \in PolicySpecs({SelEverything}, {"ClusterAdmissionPolicy"})
    /\ addonItems = <<>>
    /\ policyItems = <<>>
    /\ addonStatus = NewAddonStatus
    /\ aPc = "idle"
    /\ aObj = NewAddonStatus
    /\ aList = <<>>
    /\ aIdx = 0
    /\ aOps = <<>>
    /\ aPatch = NoPatch
    /\ aResult = NoResult
    /\ remotePolicy = [c \in Clusters |-> NoPolicy]
    /\ policyStatus = NewPolicyStatus
    /\ pPc = "idle"
    /\ pObj = NewPolicyStatus
    /\ pList = <<>>
    /\ pIdx = 0
    /\ pLocal = NoLocal
    /\ pOps = <<>>
    /\ pResult = PResult(0, NoError)
    /\ faults = 0
    /\ envEvents = 0
    /\ requests = NoRequests
    /\ admission \in [name : NameInputs, spec : WebhookSpecs, old : {<<>>},
                       defaults : {0}, verdict : {""}]

\* the resources a namespace-scoped list may return: MaxResources of a
\* kind, each in either namespace with one of the selectors
MapperSelectors == {SelProduction, SelNotInFrontend, SelMalformed}
ResourceLists ==
    {[i \in 1..MaxResources |->
         [name |-> i, namespace |-> n[i], clusterSelector |-> sel[i]]] :
        n \in [1..MaxResources -> Namespaces],
        sel \in [1..MaxResources -> MapperSelectors]}

\* the two watches over clusters of either namespace, labelled as the
\* fixtures, with the same resources of either kind (a mapper reads the
\* resources of its own kind only)
InitMapper ==
    /\ cluster \in {[c \in Clusters |->
                        NewCluster(n[c], ClusterLabels(c), TRUE, TRUE, NoAnnotations)] :
                     n \in [Clusters -> Namespaces]}
    /\ remote = [c \in Clusters |-> [o \in InstallObjs |-> NoObject]]
    /\ addonState = "absent"
    /\ addonSpec \in [clusterSelector : {SelEverything}]
    /\ policyState = "absent"
    /\ policySpec \in PolicySpecs({SelEverything}, {"ClusterAdmissionPolicy"})
    /\ \E items \in ResourceLists :
        /\ addonItems = items
        /\ policyItems = items
    /\ AtRest

NextMapper ==
    \/ AddonClusterEvent
    \/ PolicyClusterEvent
    \/ ClusterLabelsChange

AddonNext ==
    \/ Reconcile
    \/ CheckCluster
    \/ RemoteClientGetter
    \/ createKubewardenNamespace
    \/ installKubewardenCRDs
    \/ installKubewardenController
    \/ installKubewardenDefaults
    \/ PatchCluster
    \/ patchKubewardenAddon

Next ==
    \/ AddonNext
    \/ PolicyNext
    \/ ClusterStatusChange
    \/ RemotePolicyActivates

NextAddon ==
    \/ AddonNext
    \/ ClusterStatusChange
    \/ OtherActorAnnotate
    \/ OtherAddonInstalls

NextPolicy ==
    \/ PolicyNext
    \/ ClusterStatusChange
    \/ RemotePolicyActivates
    \/ PolicyDeletionRequested
    \/ PolicyRemoved

NextDeploy ==
    \/ PolicyNext
    \/ RemotePolicyActivates
    \/ ManualModePatch
    \/ OtherWriterCreates

NextRelabel ==
    \/ PolicyNext
    \/ ClusterLabelsChange
    \/ RemotePolicyActivates

NextBuild ==
    \/ PolicyNext
    \/ RemotePolicyActivates

NextRemoval ==
    \/ AddonNext
    \/ PolicyNext

NextWebhook ==
    \/ DefaultingWebhook
    \/ ValidatingWebhook

Spec == Init /\ [][Next]_vars

SpecAddon == InitAddon /\ [][NextAddon]_vars

SpecPolicy == InitPolicy /\ [][NextPolicy]_vars

SpecSelector == InitSelector /\ [][AddonNext]_vars

SpecMapper == InitMapper /\ [][NextMapper]_vars

SpecDeploy == InitDeploy /\ [][NextDeploy]_vars

SpecRelabel == InitRelabel /\ [][NextRelabel]_vars

SpecInstall == InitInstall /\ [][AddonNext]_vars

SpecBuild == InitBuild /\ [][NextBuild]_vars

SpecRemoval == InitRemoval /\ [][NextRemoval]_vars

SpecWebhook == InitWebhook /\ [][NextWebhook]_vars

\* the addon reconciler under a work queue that keeps running it: a step of
\* a pass that can be taken is taken, and a finished pass is followed by the
\* next one
SpecAddonLive == InitAddon /\ [][NextAddon]_vars /\ WF_vars(AddonNext)

\* the policy reconciler under a work queue that keeps running it (every
\* pass that writes the status asks for a requeue)
SpecPolicyLive == InitPolicy /\ [][NextPolicy]_vars /\ WF_vars(PolicyNext)

TypeOK ==
    /\ aPc \in {"idle", "check", "client", "namespace", "crds", "controller",
                "defaults", "mark", "patch", "done"}
    /\ faults \in 0..MaxFaults
    /\ envEvents \in 0..MaxEnvEvents

(* ------------------------------ properties ---------------------------- *)

Marked(o) == HasAnnotation(o, KubewardenInstalledAnnotation)

\* the calls and patches of the running addon pass that concern cluster c
AddonOpsOn(c) == {j \in 1..Len(aOps) : aOps[j].cluster = c}

FullyInstalled(c) == \A o \in InstallObjs : remote[c][o] # NoObject

\* the addon pass has left the loop, at the cluster with index i
AddonStoppedAt(i) == aPc \in {"patch", "done"} /\ aIdx = i

\* C1: idempotent install.  A pass over a cluster that an earlier pass has
\* installed and marked issues no remote call and no patch for that cluster,
\* returns no error from reconcileNormal, and leaves the end state of the
\* first pass: the four install objects and the marker with value "true".
\* When the cluster passes the readiness gate the pass ends at the marker
\* check with an empty result.
C1_IdempotentInstall ==
    \A i \in 1..Len(aList) :
        Marked(aList[i]) =>
            /\ AddonOpsOn(aList[i].name) = {}
            /\ FullyInstalled(aList[i].name)
            /\ cluster[aList[i].name].annotations[KubewardenInstalledAnnotation] = "true"
            /\ AddonStoppedAt(i) =>
                   /\ aResult.err = NoError
                   /\ ~AddonClusterNotReady(aList[i]) =>
                          /\ aResult.exit = "alreadyInstalled"
                          /\ aResult.requeueAfter = 0

\* a second pass has ended at a cluster the first pass installed
C1_Witness ==
    /\ aPc = "done"
    /\ aResult.exit = "alreadyInstalled"
    /\ aList[aIdx].annotations[KubewardenInstalledAnnotation] = "true"
    /\ FullyInstalled(aList[aIdx].name)
    /\ envEvents = 0

\* C2: within one pass the calls for a cluster are issued in the order
\* namespace, CRDs, controller, defaults, marker, each one only after the one
\* before it succeeded for the same cluster; so the marker is patched only
\* after the four install steps succeeded for that cluster in this pass.
C2_StrictStepOrder ==
    \A j \in 1..Len(aOps) :
        LET e == aOps[j]
            Prev(op) == /\ j > 1
                        /\ aOps[j - 1] = [cluster |-> e.cluster, op |-> op, ok |-> TRUE]
        IN  CASE e.op = "namespace" ->
                     j = 1 \/ (/\ aOps[j - 1].op = "marker"
                               /\ aOps[j - 1].ok
                               /\ aOps[j - 1].cluster # e.cluster)
              [] e.op = "crds"       -> Prev("namespace")
              [] e.op = "controller" -> Prev("crds")
              [] e.op = "defaults"   -> Prev("controller")
              [] e.op = "marker"     ->
                     /\ j >= 5
                     /\ \A k \in 1..4 :
                            aOps[j - 5 + k] = [cluster |-> e.cluster,
                                               op |-> InstallSteps[k], ok |-> TRUE]
              [] OTHER -> FALSE

\* the pass has patched the marker onto the second cluster of its list
C2_Witness ==
    /\ Len(aOps) = 10
    /\ aOps[10] = [cluster |-> aList[2].name, op |-> "marker", ok |-> TRUE]
    /\ Marked(cluster[aList[2].name])

\* C3: the installed marker, once present on a cluster, is never removed or
\* changed: no step of an addon pass (nor of any other actor of this
\* specification) takes a cluster that carries the marker to a state where
\* the marker is absent or has another value.
C3_MarkerNeverCleared ==
    [][\A c \in Clusters :
          Marked(cluster[c]) =>
              cluster'[c].annotations[KubewardenInstalledAnnotation]
                  = cluster[c].annotations[KubewardenInstalledAnnotation]]_vars

\* a pass has sent its marker patch to a cluster that another addon's pass
\* had marked since the list was read; the marker is still there
C3_Witness ==
    /\ aPatch.cluster # 0
    /\ aPatch.before[KubewardenInstalledAnnotation] = "true"
    /\ Marked(cluster[aPatch.cluster])

\* the entry of the pass's list for the cluster it patched last
PatchedListEntry == aList[CHOOSE i \in 1..Len(aList) : aList[i].name = aPatch.cluster]

\* C4: merge-patch safety.  The marker patch carries the marker key only;
\* applied to the object as stored at patch time, it leaves every other
\* annotation as stored (also one written after the pass read the cluster)
\* and sets the marker to "true".
C4_MergePatchSafety ==
    aPatch.cluster # 0 =>
        /\ DOMAIN aPatch.patch = {KubewardenInstalledAnnotation}
        /\ aPatch.after[KubewardenInstalledAnnotation] = "true"
        /\ \A k \in AnnotationKeys \ {KubewardenInstalledAnnotation} :
               aPatch.after[k] = aPatch.before[k]

\* another actor wrote its annotation between the pass's read of the cluster
\* and the marker patch; after the patch both annotations are present
C4_Witness ==
    /\ aPatch.cluster # 0
    /\ PatchedListEntry.annotations[OtherAnnotation] = NoValue
    /\ aPatch.before[OtherAnnotation] \in OtherValues
    /\ aPatch.after[OtherAnnotation] = aPatch.before[OtherAnnotation]
    /\ aPatch.after[KubewardenInstalledAnnotation] = "true"

\* C5: the marker check is a per-cluster short-circuit: a pass that finds
\* the marker on a matched cluster goes on to the remaining matched
\* clusters, so it can end at a marked cluster only when that cluster is
\* the last one of its list.
C5_PerClusterShortCircuit ==
    (aPc \in {"patch", "done"} /\ aResult.exit = "alreadyInstalled")
        => aIdx = Len(aList)

\* a cluster is control-plane-ready when status.controlPlaneReady is true
\* or its ControlPlaneReady condition is true
ClusterReady(o) == o.controlPlaneReady \/ o.condReady

\* cluster c is selected by the addon and has what an install needs
Eligible(c) ==
    /\ addonState = "present"
    /\ ~LabelSelectorAsSelectorFails(addonSpec.clusterSelector)
    /\ cluster[c].namespace = ResourceNamespace
    /\ SelectorMatches(addonSpec.clusterSelector, cluster[c].labels)
    /\ ClusterReady(cluster[c])

\* C6: Kubewarden is installed on all selected clusters.  Under repeated
\* reconciles, every cluster that from some point on stays matched by the
\* selector and control-plane-ready eventually carries the installed marker,
\* whatever the state of the other matched clusters (install calls fail
\* finitely often).
C6_InstalledOnAllSelected ==
    \A c \in Clusters : (<>[]Eligible(c)) => <>Marked(cluster[c])

\* C7: end-to-end readiness.  After a pass over a single matched ready
\* cluster whose install steps and status patch all succeeded, the cluster
\* carries the marker and the addon's status.ready is true.
C7_AddonReadyAfterInstall ==
    ( /\ aPc = "done"
      /\ aResult.exit = "completed"
      /\ aResult.patched = 1
      /\ Len(aList) = 1
      /\ ClusterReady(aList[1])
      /\ Len(aOps) = 5 )
        => /\ Marked(cluster[aList[1].name])
           /\ addonStatus.ready

\* C8: readiness gate of the addon path.  A matched cluster that is not
\* control-plane-ready gets no remote call and no marker patch in the pass;
\* the pass ends at it without error and without marking a condition, with
\* a requeue after defaultRequeueDuration (60 s).  Only a cluster that is
\* not ready ends a pass this way.
C8_ReadinessGate ==
    /\ \A i \in 1..Len(aList) :
           ~ClusterReady(aList[i]) =>
               /\ AddonOpsOn(aList[i].name) = {}
               /\ aPatch.cluster # aList[i].name
               /\ AddonStoppedAt(i) =>
                      /\ aResult.exit = "notReady"
                      /\ aResult.err = NoError
                      /\ aResult.requeue = FALSE
                      /\ aResult.requeueAfter = defaultRequeueDuration
                      /\ aResult.requeueAfter = 60
                      /\ aObj.conditions = addonStatus.conditions
    /\ (aPc \in {"patch", "done"} /\ aResult.exit = "notReady") =>
           ~ClusterReady(aList[aIdx])

\* a pass has ended at a cluster that is not ready, the second of its list,
\* after installing on the first
C8_Witness ==
    /\ aPc = "done"
    /\ aResult.exit = "notReady"
    /\ aIdx = 2
    /\ ~ClusterReady(aList[2])
    /\ Marked(cluster[aList[1].name])
    /\ ~Marked(cluster[aList[2].name])

\* C9: both reconcilers apply the same readiness rule: the policy pass
\* holds a cluster back as not ready only if the cluster is not ready by
\* the rule of the addon pass (neither status.controlPlaneReady nor the
\* ControlPlaneReady condition is true).
C9_SameReadinessRule ==
    \A i \in 1..Len(pLocal.gates) :
        pLocal.gates[i] = "notReady" =>
            /\ ~ClusterReady(pList[i])
            /\ AddonClusterNotReady(pList[i])

\* the clusters of the policy pass's list that passed its readiness gate
PolicyReadyClusters == {pList[i].name : i \in {j \in 1..Len(pList) :
                                                 ~PolicyClusterNotReady(pList[j])}}

\* C10: after a policy pass that wrote the status, status.deployedPolicies
\* has at most as many entries as there are matched clusters that were
\* control-plane-ready in the pass, and its entries name distinct clusters
\* among those.
C10_DeployedPoliciesBound ==
    (pPc = "done" /\ pResult.exit = "updated") =>
        LET dp == policyStatus.deployedPolicies IN
        /\ Len(dp) <= Cardinality(PolicyReadyClusters)
        /\ Len(dp) <= Cardinality({i \in 1..Len(pList) : ClusterReady(pList[i])})
        /\ \A i \in 1..Len(dp) : dp[i].clusterName \in PolicyReadyClusters
        /\ \A i, j \in 1..Len(dp) : dp[i].clusterName = dp[j].clusterName => i = j

\* a pass wrote a status with an entry while another matched cluster,
\* carrying the marker, was held back as not ready
C10_Witness ==
    /\ pPc = "done"
    /\ pResult.exit = "updated"
    /\ Len(policyStatus.deployedPolicies) = 1
    /\ Len(pList) = 2
    /\ \E i \in 1..2 : /\ PolicyClusterNotReady(pList[i])
                       /\ Marked(pList[i])

\* the policy pass runs, or has run, reconcileNormal over a non-empty list
PolicyNormalPass ==
    \/ pPc \in {"pcheck", "pclient", "pget", "pcreate", "pupdate", "pactive", "pstatus"}
    \/ pPc = "done" /\ pResult.exit \in {"updated", "statusError"}

\* the policy pass has written the status it computed
PolicyStatusWritten == pPc = "done" /\ pResult.exit = "updated"

\* C11: status.ready of a policy is true after a pass only if every
\* matched, ready, addon-installed cluster has a deployment record with
\* active = true; a record that is deployed but not yet active keeps ready
\* false.
C11_ReadyOnlyIfAllActive ==
    (PolicyStatusWritten /\ policyStatus.ready) =>
        /\ \A i \in 1..Len(pList) :
               (ClusterReady(pList[i]) /\ Marked(pList[i])) =>
                   \E j \in 1..Len(policyStatus.deployedPolicies) :
                       /\ policyStatus.deployedPolicies[j].clusterName = pList[i].name
                       /\ policyStatus.deployedPolicies[j].active
        /\ \A j \in 1..Len(policyStatus.deployedPolicies) :
               policyStatus.deployedPolicies[j].active

\* C12: partial readiness is not masked.  When at least one of the N
\* matched clusters is not control-plane-ready, lacks the marker or gives no
\* remote client, the status written by the pass has ready = false and
\* fewer than N deployment records.
C12_PartialReadinessNotMasked ==
    ( /\ PolicyStatusWritten
      /\ \E i \in 1..Len(pList) : \/ ~ClusterReady(pList[i])
                                  \/ ~Marked(pList[i])
                                  \/ pLocal.gates[i] = "noClient" )
        => /\ ~policyStatus.ready
           /\ Len(policyStatus.deployedPolicies) < Len(pList)

\* of two matched clusters one gave no remote client and the other got its
\* deployment record
C12_Witness ==
    /\ PolicyStatusWritten
    /\ Len(pList) = 2
    /\ \E i \in 1..2 : pLocal.gates[i] = "noClient"
    /\ \E i \in 1..2 : pLocal.gates[i] = "deployed"
    /\ Len(policyStatus.deployedPolicies) = 1
    /\ ~policyStatus.ready

\* C13: the policy pass issues no get, create or update to a cluster that
\* lacks the installed marker when the pass lists it; the cluster is
\* skipped at a gate and the pass goes on over the whole list.
C13_NoDeployWithoutMarker ==
    /\ \A i \in 1..Len(pList) :
           ~Marked(pList[i]) =>
               /\ \A j \in 1..Len(pOps) :
                      pOps[j].cluster = pList[i].name => pOps[j].op = "delete"
               /\ (PolicyNormalPass /\ i <= Len(pLocal.gates)) =>
                      pLocal.gates[i] \in {"notReady", "notInstalled"}
    /\ (PolicyNormalPass /\ pPc = "done" /\ Len(pList) > 0) =>
           Len(pLocal.gates) = Len(pList)

\* the first matched cluster, ready but without the marker, was skipped and
\* the policy was deployed on the second
C13_Witness ==
    /\ PolicyStatusWritten
    /\ Len(pList) = 2
    /\ ~Marked(pList[1])
    /\ pLocal.gates = <<"notInstalled", "deployed">>
    /\ remotePolicy[pList[2].name].present
    /\ ~remotePolicy[pList[1].name].present

\* cluster c is what the end-to-end scenario asks for: matched by a
\* ClusterAdmissionPolicy, controlPlaneReady = true, carrying the marker
PolicyTarget(c) ==
    /\ policyState = "present"
    /\ policySpec.policyType = "ClusterAdmissionPolicy"
    /\ ~LabelSelectorAsSelectorFails(policySpec.clusterSelector)
    /\ cluster[c].namespace = ResourceNamespace
    /\ SelectorMatches(policySpec.clusterSelector, cluster[c].labels)
    /\ cluster[c].controlPlaneReady
    /\ Marked(cluster[c])

\* the deployment records of the stored status that name cluster c
RecordsOf(c) ==
    {j \in 1..Len(policyStatus.deployedPolicies) :
        policyStatus.deployedPolicies[j].clusterName = c}

\* C14: end-to-end policy deployment.  A cluster that stays matched, with
\* controlPlaneReady = true and the marker, eventually has exactly one
\* deployment record in the policy's status; when moreover the remote
\* policy object stays active, that record eventually has active = true.
C14_EndToEndDeployment ==
    \A c \in Clusters :
        /\ (<>[]PolicyTarget(c)) => <>(Cardinality(RecordsOf(c)) = 1)
        /\ (<>[](PolicyTarget(c) /\ RemoteFound(c)
                   /\ remotePolicy[c].policyStatus = PolicyStatusActive))
               => <>(\E j \in RecordsOf(c) : policyStatus.deployedPolicies[j].active)

\* C15: once the policy resource is gone, no cluster still holds its
\* remote policy object.
C15_DeletionCleansUp ==
    policyState = "absent" => \A c \in Clusters : ~RemoteFound(c)

\* C16: deletion is best-effort.  A delete pass that got its list visits
\* every matched cluster whatever failed on the others, returns no error
\* and asks for no requeue; a cluster whose delete call succeeded holds no
\* policy object afterwards, whether there was one ("deleted") or not
\* ("notFound").
C16_BestEffortDelete ==
    (pPc = "done" /\ pResult.exit = "deleted") =>
        /\ pResult.err = NoError
        /\ pResult.requeueAfter = 0
        /\ Len(pLocal.gates) = Len(pList)
        /\ \A i \in 1..Len(pList) :
               /\ pLocal.gates[i] \in {"noClient", "deleteFailed", "deleted", "notFound"}
               /\ pLocal.gates[i] \in {"deleted", "notFound"} =>
                      ~RemoteFound(pList[i].name)
               /\ pLocal.gates[i] = "noClient" =>
                      \A j \in 1..Len(pOps) : pOps[j].cluster # pList[i].name

\* the delete call failed on the first cluster and the object of the second
\* was removed all the same
C16_Witness ==
    /\ pPc = "done"
    /\ pResult.exit = "deleted"
    /\ pLocal.gates = <<"deleteFailed", "deleted">>
    /\ RemoteFound(pList[1].name)
    /\ ~RemoteFound(pList[2].name)

\* the addon pass holds the list of clusters it selected
AddonListed ==
    /\ aPc # "idle"
    /\ aResult.exit \notin {"notFound", "getError", "listError"}

AddonSelected == {aList[i].name : i \in 1..Len(aList)}

\* the labels of an object as a set of key-value pairs
LabelPairs(o) == {<<k, o.labels[k]>> : k \in DOMAIN o.labels}

\* what a selector asks of an object: every matchLabels pair is a label of
\* the object, and every requirement holds of its labels
Satisfies(o, sel) ==
    /\ sel.matchLabels \subseteq LabelPairs(o)
    /\ \A i \in 1..Len(sel.matchExpressions) :
           LET r == sel.matchExpressions[i] IN
           CASE r.operator = "In" ->
                    \E v \in r.values : <<r.key, v>> \in LabelPairs(o)
             [] r.operator = "NotIn" ->
                    \A v \in r.values : <<r.key, v>> \notin LabelPairs(o)
             [] r.operator = "Exists" ->
                    \E p \in LabelPairs(o) : p[1] = r.key
             [] r.operator = "DoesNotExist" ->
                    \A p \in LabelPairs(o) : p[1] # r.key

C18_NotInSelectsMissingKey ==
    AddonListed =>
        /\ addonSpec.clusterSelector = SelNotInFrontend =>
               \A c \in Clusters :
                   c \in AddonSelected <=>
                       /\ cluster[c].namespace = ResourceNamespace
                       /\ \/ "tier" \notin DOMAIN cluster[c].labels
                          \/ cluster[c].labels["tier"] # "frontend"
        /\ \A i \in 1..Len(addonSpec.clusterSelector.matchExpressions) :
               LET r == addonSpec.clusterSelector.matchExpressions[i] IN
               r.operator = "In" =>
                   \A k \in 1..Len(aList) : r.key \in DOMAIN aList[k].labels

\* tier NotIn [frontend] selected a cluster with tier=backend and a cluster
\* without a tier label
C18_Witness ==
    /\ AddonListed
    /\ addonSpec.clusterSelector = SelNotInFrontend
    /\ Len(aList) = 2
    /\ \E i, j \in 1..2 :
           /\ "tier" \notin DOMAIN aList[i].labels
           /\ aList[j].labels = [environment |-> "production", tier |-> "backend"]

\* C19: an addon with the empty selector selects every cluster of its
\* namespace, labelled or not, and none of another namespace, and a pass
\* that ends without error has installed Kubewarden on the selected
\* clusters that are control-plane-ready.
C19_EmptySelectorSelectsAll ==
    ( /\ addonSpec.clusterSelector = SelEverything
      /\ aPc = "done"
      /\ aResult.exit \in {"completed", "notReady", "alreadyInstalled"}
      /\ Reterr(aResult) = NoError )
        => /\ AddonSelected = {c \in Clusters : cluster[c].namespace = ResourceNamespace}
           /\ \A i \in 1..Len(aList) :
                  ClusterReady(aList[i]) => Marked(cluster[aList[i].name])

\* the keys a mapper is to emit for the Cluster object o: those of the
\* resources that live in the cluster's namespace and whose selector the
\* cluster's labels satisfy
ExpectedKeys(items, o) ==
    {[namespace |-> items[i].namespace, name |-> items[i].name] :
        i \in {j \in 1..Len(items) :
                 /\ items[j].namespace = o.namespace
                 /\ ~LabelSelectorAsSelectorFails(items[j].clusterSelector)
                 /\ Satisfies(o, items[j].clusterSelector)}}

EmittedKeys == {requests.keys[i] : i \in 1..Len(requests.keys)}

\* C20: change propagation.  A mapper that listed the resources emits, for
\* the Cluster object of the event with the labels it has then, exactly the keys of the resources of its kind
\* that live in the cluster's namespace and whose selector matches the
\* cluster's labels: no key of another namespace, no key of a non-matching
\* resource, every key of a matching one.
C20_ChangePropagation ==
    /\ (requests.mapper = "addon" /\ requests.listed) =>
           EmittedKeys = ExpectedKeys(addonItems, requests.object)
    /\ (requests.mapper = "policy" /\ requests.listed) =>
           EmittedKeys = ExpectedKeys(policyItems, requests.object)

\* the resources of a list a mapper run has to pass over: those of the
\* object's namespace whose selector does not parse
Misconfigured(items, o) ==
    {i \in 1..Len(items) :
        /\ items[i].namespace = o.namespace
        /\ LabelSelectorAsSelectorFails(items[i].clusterSelector)}

\* a mapper run over items skipped the misconfigured resources and emitted
\* the key of every other resource of the namespace that matches
SkipsMisconfigured(items) ==
    \A i \in 1..Len(items) :
        LET key == [namespace |-> items[i].namespace, name |-> items[i].name] IN
        /\ i \in Misconfigured(items, requests.object) => key \notin EmittedKeys
        /\ ( /\ items[i].namespace = requests.object.namespace
             /\ i \notin Misconfigured(items, requests.object)
             /\ Satisfies(requests.object, items[i].clusterSelector) )
               => key \in EmittedKeys

\* C21: a selector that does not parse is not fatal to a mapper.  The
\* resource carrying it is skipped, and the key of every other resource of
\* the namespace whose selector matches the cluster is still emitted, by the
\* addon mapper as by the policy mapper.
C21_SelectorErrorNonFatal ==
    /\ (requests.mapper = "addon" /\ requests.listed) =>
           SkipsMisconfigured(addonItems)
    /\ (requests.mapper = "policy" /\ requests.listed) =>
           SkipsMisconfigured(policyItems)

\* the stored status carries the failure condition of a cluster selection
SelectionFailureSurfaced(status) ==
    status.conditions[SpecsUpToDateCondition] =
        Condition("False", ClusterSelectionFailedReason)

\* C22: a malformed cluster selector is surfaced as a failure condition
\* (ClusterSelectionFailed) on the resource and causes no retry: the pass
\* that hits the selector error issues no remote operation, writes the
\* condition, and returns neither an error nor a requeue to the host.
C22_MalformedSelectorNoRetry ==
    /\ ( /\ aPc = "done"
         /\ aResult.exit = "listError"
         /\ LabelSelectorAsSelectorFails(addonSpec.clusterSelector) )
           => /\ aOps = <<>>
              /\ aResult.patched = 1 => SelectionFailureSurfaced(addonStatus)
              /\ ~aResult.requeue
              /\ aResult.requeueAfter = 0
              /\ Reterr(aResult) = NoError
    /\ ( /\ pPc = "done"
         /\ pResult.exit = "listError"
         /\ LabelSelectorAsSelectorFails(policySpec.clusterSelector) )
           => /\ pOps = <<>>
              /\ SelectionFailureSurfaced(policyStatus)
              /\ pResult.requeueAfter = 0
              /\ pResult.err = NoError

\* the step taken completes an install sequence of the addon pass on cluster
\* c: the defaults step, the last of the four, has just succeeded there
CompletesInstallOn(c) ==
    /\ Len(aOps') = Len(aOps) + 1
    /\ aOps'[Len(aOps')] = [cluster |-> c, op |-> "defaults", ok |-> TRUE]

\* C23: the installed marker is the at-most-once install guard.  Over all
\* passes and all addons that select a cluster, the full install sequence
\* (namespace, CRDs, controller, defaults) is run against the cluster at
\* most once: no pass completes the sequence on a cluster on which an
\* earlier sequence, of this addon or of another, has already completed.
C23_AtMostOnceInstall ==
    [][\A c \in Clusters : CompletesInstallOn(c) => ~FullyInstalled(c)]_vars

\* the step taken is one of another actor, not of the two reconcilers
EnvironmentStep == envEvents' # envEvents

\* C24: the Cluster object is read-only to both reconcilers except for the
\* installed marker.  A step of the addon reconciler changes a Cluster
\* object only at the marker step of the pass, only for the cluster in
\* hand, and only by adding the marker annotation; a step of the policy
\* reconciler, on the normal path and on the delete path, changes no
\* Cluster object.
C24_ClusterReadOnly ==
    [][~EnvironmentStep =>
          /\ \A c \in Clusters :
                 cluster'[c] # cluster[c] =>
                     /\ aPc = "mark"
                     /\ aList[aIdx].name = c
                     /\ policyVars' = policyVars
                     /\ cluster'[c] = [cluster[c] EXCEPT
                            !.annotations[KubewardenInstalledAnnotation] = "true"]
          /\ policyVars' # policyVars => cluster' = cluster]_vars

\* the addon pass has marked a cluster whose readiness status had changed
\* after the pass listed it, and a policy pass has since run over that
\* cluster: the object has kept its newer status and carries the marker as
\* its one annotation
C24_Witness ==
    /\ aPatch.cluster # 0
    /\ \E i \in 1..Len(aList) :
           /\ aList[i].name = aPatch.cluster
           /\ aList[i].controlPlaneReady # cluster[aPatch.cluster].controlPlaneReady
    /\ cluster[aPatch.cluster].annotations =
           [NoAnnotations EXCEPT ![KubewardenInstalledAnnotation] = "true"]
    /\ pPc = "done"
    /\ \E j \in 1..Len(pOps) : pOps[j].cluster = aPatch.cluster

\* the PolicyRule a remote rule stands for: operations and scope read back
\* as strings, an unset scope as the empty string
RuleFromRemote(rw) ==
    [apiGroups |-> rw.rule.apiGroups,
     apiVersions |-> rw.rule.apiVersions,
     resources |-> rw.rule.resources,
     operations |-> [i \in 1..Len(rw.operations) |-> rw.operations[i].value],
     scope |-> IF rw.rule.scope.set THEN rw.rule.scope.value ELSE ""]

\* the pass has just written the policy object of the cluster in hand
PolicyJustDeployed == pPc = "pactive"

C26_ManualModeKept ==
    [][\A c \in Clusters :
          ( /\ ~EnvironmentStep
            /\ remotePolicy[c].present
            /\ remotePolicy[c].spec.mode = MonitorMode
            /\ remotePolicy'[c].present )
              => remotePolicy'[c].spec.mode = MonitorMode]_vars

\* the remote object CreateOrUpdateRemotePolicy is to target
TargetObject ==
    IF policySpec.policyType = "ClusterAdmissionPolicy"
    THEN [kind |-> "ClusterAdmissionPolicy", name |-> policySpec.policyName,
          namespace |-> ""]
    ELSE [kind |-> "AdmissionPolicy", name |-> policySpec.policyName,
          namespace |-> policySpec.targetNamespace]

\* the remote object of cluster c with the target's key exists
TargetExists(c) == remotePolicy[c].present /\ remotePolicy[c].key = TargetObject

\* C27: CreateOrUpdateRemotePolicy.  A ClusterAdmissionPolicy is keyed by
\* policyName and an AdmissionPolicy by (policyName, targetNamespace); a get
\* that finds nothing leads to a create, a get that finds the object to an
\* update, a get that fails to no write; the normal path writes policy
\* objects by this create or update only, and after a successful one the remote
\* object has the target's key and its spec is buildPolicySpec of the
\* resource.
C27_CreateOrUpdate ==
    [][~EnvironmentStep =>
          /\ (pPc = "pget" /\ pPc' = "pcreate") => ~TargetExists(pList[pIdx].name)
          /\ (pPc = "pget" /\ pPc' = "pupdate") => TargetExists(pList[pIdx].name)
          /\ (pPc = "pget" /\ ~pOps'[Len(pOps')].ok) =>
                 pPc' \notin {"pcreate", "pupdate"}
          /\ (PolicyNormalPass /\ remotePolicy' # remotePolicy) =>
                 /\ pPc \in {"pcreate", "pupdate"}
                 /\ pPc' = "pactive"
                 /\ remotePolicy'[pList[pIdx].name].present
                 /\ remotePolicy'[pList[pIdx].name].key = TargetObject
                 /\ remotePolicy'[pList[pIdx].name].spec = buildPolicySpec(policySpec)
                 /\ \A c \in Clusters \ {pList[pIdx].name} :
                        remotePolicy'[c] = remotePolicy[c]
          /\ (pPc \in {"pcreate", "pupdate"} /\ pPc' = "pactive") =>
                 /\ remotePolicy'[pList[pIdx].name].key = TargetObject
                 /\ remotePolicy'[pList[pIdx].name].spec = buildPolicySpec(policySpec)]_vars

\* a pass has updated an AdmissionPolicy that it found on the workload
\* cluster, after another actor had written to that cluster
C27_Witness ==
    /\ PolicyJustDeployed
    /\ policySpec.policyType = "AdmissionPolicy"
    /\ pOps[Len(pOps)] = [cluster |-> pList[pIdx].name, op |-> "update", ok |-> TRUE]
    /\ remotePolicy[pList[pIdx].name].key.namespace = policySpec.targetNamespace
    /\ remotePolicy[pList[pIdx].name].spec = buildPolicySpec(policySpec)
    /\ envEvents > 0

\* the clusters of a list of deployment records on which the create met an
\* object that was already there
Raced(records) ==
    {records[i].clusterName : i \in {j \in 1..Len(records) :
                                        records[j].message = "already exists"}}

\* C28: create race.  When another writer creates the remote policy object
\* between the pass's get (not found) and its create, the pass does not
\* overwrite the object: it issues no further call for that cluster, the
\* cluster's record is appended with active = false and the error as
\* message, and status.ready is written false.  A later pass finds the
\* object, takes the update branch and brings the remote spec to the one of
\* the resource.
C28_CreateRace ==
    /\ \A c \in Raced(pLocal.deployedPolicies) :
           /\ \A i \in 1..Len(pLocal.deployedPolicies) :
                  pLocal.deployedPolicies[i].clusterName = c =>
                      ~pLocal.deployedPolicies[i].active
           /\ ~pLocal.allReady
           /\ \A j \in 1..Len(pOps) :
                  pOps[j].cluster = c => pOps[j].op \in {"get", "create"}
           /\ remotePolicy[c].present
           /\ remotePolicy[c].spec.module = OtherModule
           /\ (pPc = "done" /\ pResult.exit = "updated") =>
                  /\ ~policyStatus.ready
                  /\ c \in Raced(policyStatus.deployedPolicies)
    /\ ( /\ PolicyJustDeployed
         /\ pList[pIdx].name \in Raced(policyStatus.deployedPolicies) )
           => /\ pOps[Len(pOps)] =
                     [cluster |-> pList[pIdx].name, op |-> "update", ok |-> TRUE]
              /\ remotePolicy[pList[pIdx].name].spec.module = policySpec.module
              /\ remotePolicy[pList[pIdx].name].spec.rules =
                     buildPolicySpec(policySpec).rules

\* the status stored by an earlier pass records the race on the cluster in
\* hand with ready = false, and the running pass has just updated the object
\* the other writer had created
C28_Witness ==
    /\ PolicyJustDeployed
    /\ pList[pIdx].name \in Raced(policyStatus.deployedPolicies)
    /\ ~policyStatus.ready
    /\ remotePolicy[pList[pIdx].name].spec.module = policySpec.module
    /\ policySpec.module # OtherModule

\* the normal path of the policy pass has left the loop over the clusters
PolicyLoopLeft ==
    \/ pPc = "pstatus"
    \/ pPc = "done" /\ pResult.exit \in {"updated", "statusError"}

\* the deployment records the pass holds for the cluster at index i
PassRecords(i) ==
    {j \in 1..Len(pLocal.deployedPolicies) :
        pLocal.deployedPolicies[j].clusterName = pList[i].name}

\* C29: per-cluster error isolation in the policy path.  A failure on one
\* matched cluster (remote client, deploy, activation query) does not keep
\* the pass from processing the clusters after it, is never the error the
\* pass returns, and, for a deploy or activation failure, is held in that
\* cluster's record as active = false with the error as message.
C29_PerClusterIsolation ==
    /\ (PolicyLoopLeft /\ Len(pList) > 0) =>
           /\ Len(pLocal.gates) = Len(pList)
           /\ \A i \in 1..Len(pList) :
                  \/ pLocal.gates[i] \in {"notReady", "notInstalled", "noClient"}
                  \/ \E j \in 1..Len(pOps) :
                         pOps[j].cluster = pList[i].name /\ pOps[j].op = "get"
    /\ PolicyNormalPass =>
           \A i \in 1..Len(pLocal.gates) :
               /\ pLocal.gates[i] = "noClient" =>
                      ~pLocal.allReady /\ PassRecords(i) = {}
               /\ pLocal.gates[i] = "deployFailed" =>
                      /\ ~pLocal.allReady
                      /\ PassRecords(i) # {}
                      /\ \A j \in PassRecords(i) :
                             /\ ~pLocal.deployedPolicies[j].active
                             /\ pLocal.deployedPolicies[j].message \in
                                    {"get", "create", "already exists", "update",
                                     "not found", "getStatus"}
    /\ (pPc = "done" /\ pResult.err # NoError) =>
           pResult.exit \in {"getError", "listError", "statusError"}

\* a pass whose deploy failed on its first cluster has gone on to deploy to
\* the second and has written the status without returning an error
C29_Witness ==
    /\ pPc = "done"
    /\ pResult.exit = "updated"
    /\ pResult.err = NoError
    /\ Len(pList) = 2
    /\ pLocal.gates = <<"deployFailed", "deployed">>
    /\ Len(policyStatus.deployedPolicies) = 2
    /\ ~policyStatus.deployedPolicies[1].active
    /\ ~policyStatus.ready

\* the install calls of the running addon pass that failed
FailedInstallOps ==
    {j \in 1..Len(aOps) : aOps[j].op \in InstallObjs /\ ~aOps[j].ok}

\* C30: install-step failure in the addon path.  When the namespace, CRD,
\* controller or defaults step fails on a cluster, the pass ends there: it
\* issues no further call, neither the marker patch for that cluster nor
\* anything for a later cluster of the list, and Reconcile returns the
\* error.  The calls of a pass for a cluster always begin with the namespace
\* step, whatever an earlier pass has left on the cluster.
C30_InstallStepFailure ==
    /\ \A j \in FailedInstallOps :
           /\ j = Len(aOps)
           /\ aPc \in {"patch", "done"}
           /\ aList[aIdx].name = aOps[j].cluster
           /\ aPatch.cluster # aOps[j].cluster
           /\ \A k \in 1..Len(aOps) :
                  \A i \in 1..Len(aList) :
                      aList[i].name = aOps[k].cluster => i <= aIdx
           /\ aResult.exit = "error"
           /\ Reterr(aResult) = aOps[j].op
    /\ \A j \in 1..Len(aOps) :
           (j = 1 \/ aOps[j - 1].cluster # aOps[j].cluster) =>
               aOps[j].op = "namespace"

\* the CRD step has failed on the first of two ready clusters: the pass has
\* returned the error, the cluster has its namespace but no marker, and the
\* second cluster was not touched
C30_Witness ==
    /\ aPc = "done"
    /\ Len(aList) = 2
    /\ aOps = << [cluster |-> aList[1].name, op |-> "namespace", ok |-> TRUE],
                 [cluster |-> aList[1].name, op |-> "crds", ok |-> FALSE] >>
    /\ ClusterReady(aList[2])
    /\ ~Marked(aList[2])
    /\ ~Marked(cluster[aList[1].name])
    /\ remote[aList[1].name]["namespace"] # NoObject
    /\ remote[aList[2].name]["namespace"] = NoObject
    /\ Reterr(aResult) # NoError

\* a new pass is about to run the namespace step on a cluster on which an
\* earlier pass had created the namespace and then failed
C30_Replay ==
    /\ aPc = "namespace"
    /\ remote[aList[aIdx].name]["namespace"] # NoObject
    /\ ~FullyInstalled(aList[aIdx].name)

\* the addon pass has ended because the remote client of a matched cluster
\* could not be obtained
AddonClientFailed ==
    /\ aPc = "done"
    /\ aResult.err = "getting remote cluster client"

\* C31: transient cluster errors are not fatal.  When the remote client of a
\* matched cluster cannot be obtained, the pass asks for a delayed requeue
\* and does not mark the resource failed: the addon pass returns no error
\* and sets no failure condition, and the policy pass returns no error and
\* asks for its requeue.
C31_TransientClusterError ==
    /\ AddonClientFailed =>
           /\ Reterr(aResult) = NoError
           /\ aResult.requeueAfter > 0
           /\ \A t \in ConditionTypes : aObj.conditions[t].status # "False"
    /\ ( /\ pPc = "done"
         /\ pResult.exit = "updated"
         /\ \E i \in 1..Len(pLocal.gates) : pLocal.gates[i] = "noClient" )
           => /\ pResult.err = NoError
              /\ pResult.requeueAfter > 0

\* the exits of Reconcile taken before the patch helper exists
AddonGetFailed == aResult.exit \in {"notFound", "getError"}

\* C32: addon status aggregation.  A pass whose listing succeeded has set
\* status.matchingClusters to one reference per listed cluster, in the order
\* of the list, and every pass that got the resource has called the status
\* patch exactly once when it ends, with the summarised Ready condition, on
\* every exit (not ready, already installed, error, completed); the stored
\* status is the patched one when the call succeeded.  A pass whose get of
\* the resource failed has called no patch.
C32_StatusAggregation ==
    /\ aPc \notin {"idle", "done"} => aResult.patchCalls = 0
    /\ aPc = "done" =>
         IF AddonGetFailed
         THEN aResult.patchCalls = 0 /\ aResult.patched = 0
         ELSE /\ aResult.patchCalls = 1
              /\ aObj.conditions = SetSummary(aObj.conditions)
              /\ aResult.patched = 1 => addonStatus = aObj
              /\ aResult.exit # "listError" =>
                   /\ Len(aObj.matchingClusters) = Len(aList)
                   /\ \A i \in 1..Len(aList) :
                        aObj.matchingClusters[i] = aList[i].name

\* a pass over two selected clusters has ended at the first one and has
\* patched the status with both references
C32_Witness ==
    /\ aPc = "done"
    /\ aResult.exit \in {"notReady", "alreadyInstalled", "error"}
    /\ Len(aList) = 2
    /\ aIdx = 1
    /\ aResult.patched = 1
    /\ addonStatus.matchingClusters = <<aList[1].name, aList[2].name>>

\* the elements of a sequence
Range(seq) == {seq[i] : i \in 1..Len(seq)}

\* C33: after a policy pass that wrote the status without error, the stored
\* status.matchingClusters holds exactly the clusters the selector matched
\* in that pass; when it matched none, matchingClusters is empty together
\* with deployedPolicies.
C33_PolicyMatchingClusters ==
    (PolicyNormalPass /\ PolicyStatusWritten) =>
        /\ Range(policyStatus.matchingClusters) = {pList[i].name : i \in 1..Len(pList)}
        /\ Len(pList) = 0 =>
               /\ policyStatus.matchingClusters = <<>>
               /\ policyStatus.deployedPolicies = <<>>

\* C34: policy requeue discipline.  A pass that matched no cluster stores
\* ready = false and no deployed policy and asks for a requeue after one
\* minute; a pass over matching clusters that is not fully ready asks for a
\* requeue after the fixed five minutes; a pass whose status update failed
\* returns the error and no requeue delay.
C34_PolicyRequeueDiscipline ==
    (PolicyNormalPass /\ pPc = "done") =>
        /\ (pResult.exit = "updated" /\ Len(pList) = 0) =>
               /\ ~policyStatus.ready
               /\ policyStatus.deployedPolicies = <<>>
               /\ pResult.requeueAfter = defaultRequeueDuration
               /\ pResult.err = NoError
        /\ (pResult.exit = "updated" /\ Len(pList) > 0 /\ ~policyStatus.ready) =>
               /\ pResult.requeueAfter = policyRequeueDuration
               /\ pResult.err = NoError
        /\ pResult.exit = "statusError" =>
               /\ pResult.err # NoError
               /\ pResult.requeueAfter = 0

\* a pass over a selector that stopped matching has stored the status, after
\* an earlier pass had recorded a cluster
C34_Witness ==
    /\ PolicyNormalPass
    /\ pPc = "done"
    /\ pResult.exit = "updated"
    /\ Len(pList) = 0
    /\ policyStatus.matchingClusters # <<>>
    /\ pResult.requeueAfter = defaultRequeueDuration

\* a pass that is not fully ready, and a pass whose status update failed
C34_NotReadyPass ==
    /\ PolicyNormalPass /\ pPc = "done" /\ Len(pList) > 0
    /\ pResult.exit = "updated" /\ ~policyStatus.ready
C34_StatusErrorPass ==
    /\ PolicyNormalPass /\ pPc = "done" /\ pResult.exit = "statusError"

\* the addon pass is between the marker check and the marker patch of
\* cluster c: its install on c is in progress
InstallInProgress(c) ==
    /\ aPc \in {"client", "namespace", "crds", "controller", "defaults", "mark"}
    /\ aList[aIdx].name = c

\* the create and update calls the running policy pass has issued
PolicyWrites == {j \in 1..Len(pOps) : pOps[j].op \in {"create", "update"}}

InstallSucceeded(c, o) ==
    \E j \in 1..Len(aOps) :
        aOps[j].cluster = c /\ aOps[j].op = o /\ aOps[j].ok

\* C36: the install steps are create-only.  No step of the addon reconciler
\* changes or removes an object a workload cluster already holds; an object
\* that was missing is either still missing or the rendered one; and an
\* install call that finds its object present and does not fail goes on to
\* the next step ("already exists" is success).
C36_CreateOnly ==
    [][ /\ \A c \in Clusters, o \in InstallObjs :
              /\ remote[c][o] # NoObject => remote'[c][o] = remote[c][o]
              /\ remote[c][o] = NoObject => remote'[c][o] \in {NoObject, ChartContent}
        /\ \A c \in Clusters, o \in InstallObjs :
              ( /\ aPc = o
                /\ aList[aIdx].name = c
                /\ remote[c][o] # NoObject
                /\ aOps' # aOps
                /\ faults' = faults )
                  => /\ aPc' \notin {"patch", "done"}
                     /\ InstallSucceeded(c, o)' ]_vars

\* the pass has completed the install on a cluster that held a namespace and
\* a controller of someone else and no CRDs: the two are as they were
C36_Witness ==
    /\ aPc = "mark"
    /\ \A o \in InstallObjs : InstallSucceeded(aList[aIdx].name, o)
    /\ remote[aList[aIdx].name]["namespace"] = OtherContent
    /\ remote[aList[aIdx].name]["controller"] = OtherContent
    /\ remote[aList[aIdx].name]["crds"] = ChartContent

\* the spec of the remote object the pass has just created or updated
JustDeployedSpec == remotePolicy[pList[pIdx].name].spec

\* the clusters on which the running pass has written the policy object
WrittenClusters ==
    {pOps[j].cluster : j \in {k \in PolicyWrites : pOps[k].ok}}

\* C37: buildPolicySpec.  The remote spec the pass writes has the
\* policyServer, module and mutating of the resource; its failure policy is
\* the resource's when that is non-empty and unset otherwise; its settings
\* are the resource's when their raw content is non-empty and without
\* content otherwise; its match conditions are the resource's, one for one
\* by name and expression, in order; and the spec written is a function of
\* the resource's spec alone: every cluster written in a pass got the same.
C37_BuildPolicySpec ==
    /\ (PolicyNormalPass /\ PolicyJustDeployed) =>
        LET rs == JustDeployedSpec IN
        /\ rs.policyServer = policySpec.policyServer
        /\ rs.module = policySpec.module
        /\ rs.mutating = policySpec.mutating
        /\ IF policySpec.failurePolicy # ""
           THEN rs.failurePolicy.set /\ rs.failurePolicy.value = policySpec.failurePolicy
           ELSE ~rs.failurePolicy.set
        /\ IF Len(policySpec.settings.raw) > 0
           THEN rs.settings.raw = policySpec.settings.raw
           ELSE Len(rs.settings.raw) = 0
        /\ Len(rs.matchConditions) = Len(policySpec.matchConditions)
        /\ \A i \in 1..Len(policySpec.matchConditions) :
               /\ rs.matchConditions[i].name = policySpec.matchConditions[i].name
               /\ rs.matchConditions[i].expression =
                      policySpec.matchConditions[i].expression
    /\ PolicyNormalPass =>
        \A c1 \in WrittenClusters, c2 \in WrittenClusters :
            [remotePolicy[c1].spec EXCEPT !.mode = UnsetMode] =
                [remotePolicy[c2].spec EXCEPT !.mode = UnsetMode]

\* a mutating policy without failure policy, with settings and with two
\* match conditions in the order b, a has been written to both clusters
C37_Witness ==
    /\ PolicyNormalPass /\ PolicyJustDeployed
    /\ WrittenClusters = Clusters
    /\ policySpec.mutating
    /\ policySpec.failurePolicy = ""
    /\ Len(policySpec.settings.raw) > 0
    /\ Len(policySpec.matchConditions) = 2
    /\ policySpec.matchConditions[1].name = "b"
    /\ JustDeployedSpec.matchConditions[2].name = "a"

\* the record the policy pass appended last
LastRecord(local) == local.deployedPolicies[Len(local.deployedPolicies)]

\* C38: the activation query.  The record a deployment leaves has active =
\* true exactly when the deploy succeeded and the object fetched again
\* reports the status "active"; when the deploy or the fetch fails the
\* record has active = false and allReady is cleared, and the status the
\* pass then stores has ready = false.
C38_QueryActivation ==
    [][ /\ (pPc = "pactive" /\ pPc' # "pactive") =>
             LET c == pList[pIdx].name
                 fetched == pOps'[Len(pOps')].ok
             IN  /\ Len(pLocal'.deployedPolicies) = Len(pLocal.deployedPolicies) + 1
                 /\ LastRecord(pLocal').clusterName = c
                 /\ LastRecord(pLocal').active <=>
                        (fetched /\ remotePolicy[c].policyStatus = PolicyStatusActive)
                 /\ ~fetched => ~pLocal'.allReady
        /\ ( /\ PolicyNormalPass
             /\ pPc \in {"pget", "pcreate", "pupdate"}
             /\ pPc' \notin {"pget", "pcreate", "pupdate", "pactive"} ) =>
             /\ Len(pLocal'.deployedPolicies) = Len(pLocal.deployedPolicies) + 1
             /\ ~LastRecord(pLocal').active
             /\ ~pLocal'.allReady
        /\ ( /\ pPc = "pstatus"
             /\ pResult'.exit = "updated"
             /\ \E i \in 1..Len(pLocal.gates) : pLocal.gates[i] = "deployFailed" ) =>
             ~policyStatus'.ready ]_vars

\* the policy was found active on the first cluster and the fetch failed on
\* the second: one record is active, the other is not, and the stored status
\* is not ready
C38_Witness ==
    /\ PolicyStatusWritten
    /\ pLocal.gates = <<"deployed", "deployFailed">>
    /\ policyStatus.deployedPolicies[1].active
    /\ ~policyStatus.deployedPolicies[2].active
    /\ pOps[Len(pOps)] = [cluster |-> pList[2].name, op |-> "getStatus", ok |-> FALSE]
    /\ ~policyStatus.ready

\* a record is inactive although the deploy and the fetch succeeded: the
\* object does not report "active" yet
C38_DeployedNotActive ==
    /\ PolicyStatusWritten
    /\ pLocal.gates = <<"deployed", "deployed">>
    /\ policyStatus.deployedPolicies[1].active
    /\ ~policyStatus.deployedPolicies[2].active

\* C39: removal.  While the addon does not exist or carries a deletion
\* timestamp, no step changes a Cluster object or an installed object and
\* the addon pass issues no call; while the policy does not exist, the
\* policy pass issues no call and the remote policy objects stay as they
\* are.  No step removes the addon, an installed object or the marker, and
\* no call of the addon pass is a deletion.
C39_NoUninstall ==
    [][ /\ addonState \in {"absent", "deleting"} =>
             /\ UNCHANGED <<cluster, remote>>
             /\ aOps' = <<>>
             /\ aPatch' = NoPatch
        /\ policyState = "absent" =>
             /\ UNCHANGED remotePolicy
             /\ pOps' = <<>>
        /\ addonState' = addonState
        /\ \A c \in Clusters :
             /\ Marked(cluster[c]) => Marked(cluster'[c])
             /\ \A o \in InstallObjs :
                    remote[c][o] # NoObject => remote'[c][o] = remote[c][o]
        /\ \A j \in 1..Len(aOps') :
               aOps'[j].op \in InstallObjs \cup {"marker"} ]_vars

\* the pass of an addon that is being deleted has ended: it listed two
\* ready clusters without marker, stored them in the status and touched
\* neither
C39_Witness ==
    /\ addonState = "deleting"
    /\ aPc = "done"
    /\ aResult.exit = "deleting"
    /\ aResult.patched = 1
    /\ Len(addonStatus.matchingClusters) = 2
    /\ \A c \in Clusters :
           /\ ClusterReady(cluster[c])
           /\ ~Marked(cluster[c])
           /\ \A o \in InstallObjs : remote[c][o] = NoObject

\* the passes for resources that are gone have ended
C39_BothGone ==
    /\ addonState = "absent" /\ aPc = "done" /\ aResult.exit = "notFound"
    /\ policyState = "absent" /\ pPc = "done" /\ pResult.exit = "notFound"

\* Default has been applied once to the spec in admission.old: every field
\* it defaults is filled when it was empty and kept when it was not, and
\* nothing else changed
DefaultFills ==
    admission.defaults = 1 =>
        LET in == admission.old
            out == admission.spec
        IN  /\ out.policyType = IF in.policyType = "" THEN "ClusterAdmissionPolicy"
                                ELSE in.policyType
            /\ out.policyServer = IF in.policyServer = "" THEN "default"
                                  ELSE in.policyServer
            /\ out.failurePolicy = IF in.failurePolicy = "" THEN "Fail"
                                   ELSE in.failurePolicy
            /\ out.policyName = IF in.policyName = "" THEN admission.name
                                ELSE in.policyName
            /\ out.targetNamespace =
                   IF out.policyType = "AdmissionPolicy" /\ in.targetNamespace = ""
                   THEN "default" ELSE in.targetNamespace
            /\ out.module = in.module
            /\ out.rules = in.rules
            /\ out.mutating = in.mutating

\* applying Default again changes nothing
DefaultIdempotent == admission.defaults >= 2 => admission.spec = admission.old

\* what validation asks of a spec
Acceptable(spec) ==
    /\ spec.module # ""
    /\ Len(spec.rules) > 0
    /\ \A i \in 1..Len(spec.rules) :
           /\ Len(spec.rules[i].apiVersions) > 0
           /\ Len(spec.rules[i].resources) > 0
           /\ Len(spec.rules[i].operations) > 0
           /\ \A j \in 1..Len(spec.rules[i].operations) :
                  spec.rules[i].operations[j] \in {"CREATE", "UPDATE", "DELETE", "CONNECT"}
    /\ spec.policyType = "AdmissionPolicy" => spec.targetNamespace # ""

\* validation admits exactly the acceptable specs
ValidationRejects ==
    admission.verdict # "" =>
        (admission.verdict = NoError <=> Acceptable(admission.spec))

\* an admitted policy names its remote object
AdmittedKeyNonEmpty ==
    admission.verdict = NoError =>
        /\ PolicyKey(admission.spec).name # ""
        /\ PolicyKey(admission.spec).kind = "AdmissionPolicy" =>
               PolicyKey(admission.spec).namespace # ""

\* C40: policy defaulting and validation.  Default fills policyType,
\* policyServer, failurePolicy, policyName (with the resource's name) and,
\* for an AdmissionPolicy, targetNamespace, and applying it twice gives what
\* applying it once gives; validation rejects an AdmissionPolicy without
\* targetNamespace, an empty module, an empty rule list and a rule without
\* apiVersions, resources or operations or with an operation other than
\* CREATE, UPDATE, DELETE, CONNECT; so a policy that passed Default and then
\* validation has a non-empty remote object key.
C40_DefaultAndValidation ==
    /\ DefaultFills
    /\ DefaultIdempotent
    /\ ValidationRejects
    /\ AdmittedKeyNonEmpty

\* the request of a named policy of each type went through both webhooks
\* and was admitted with every default filled in
C40_Admitted ==
    /\ admission.name # ""
    /\ admission.defaults = 2
    /\ admission.verdict = NoError
    /\ admission.spec.policyType = "AdmissionPolicy"
    /\ admission.spec.policyName = admission.name
    /\ admission.spec.targetNamespace = "default"
    /\ Len(admission.spec.rules) = 2

====
